---- MODULE Spec2Model ----
(***************************************************************************)
(* Shark-pup-tracker: the flat-file record store (data_manager.py) and the *)
(* entity model (models.py).  Five JSON-backed collections, each rewritten *)
(* as a whole on every mutation.                                            *)
(***************************************************************************)
EXTENDS Integers, Sequences, FiniteSets, TLC

(***************************************************************************)
(* Python values.  Every scalar the store handles is None, an int, a float *)
(* or a str; a str is the sequence of its characters, so that int(), str() *)
(* and float() are computed and not assumed.  Floats carry whole values.   *)
(***************************************************************************)
None == [t |-> "none", n |-> 0, s |-> <<>>]

PyInt(n) == [t |-> "int", n |-> n, s |-> <<>>]

PyFloat(n) == [t |-> "float", n |-> n, s |-> <<>>]

PyStr(s) == [t |-> "str", n |-> 0, s |-> s]

\* The result of an evaluation that may raise.
Ok(v) == [exc |-> "", val |-> v]

Raise(e) == [exc |-> e, val |-> <<>>]

\* Op(v) with v evaluated once: a local variable that holds a value.
ByValue(v, Op(_)) == CHOOSE y \in {Op(x) : x \in {v}} : TRUE

DigitChars == <<"0", "1", "2", "3", "4", "5", "6", "7", "8", "9">>

IsDigit(c) == \E d \in 1..10 : DigitChars[d] = c

DigitOf(c) == (CHOOSE d \in 1..10 : DigitChars[d] = c) - 1

RECURSIVE DecimalOf(_)
\* The decimal digits of a natural number, as str(n) writes them.
DecimalOf(n) ==
    IF n < 10 THEN <<DigitChars[n + 1]>>
    ELSE DecimalOf(n \div 10) \o <<DigitChars[(n % 10) + 1]>>

RECURSIVE ParseDigits(_)
\* The number a sequence of digit characters denotes.
ParseDigits(s) ==
    IF s = <<>> THEN 0
    ELSE 10 * ParseDigits(SubSeq(s, 1, Len(s) - 1)) + DigitOf(s[Len(s)])

IsNumeral(s) == s # <<>> /\ \A i \in 1..Len(s) : IsDigit(s[i])

\* Python truthiness, as used by `p.id or 0` and `if m.id and ...`.
Truthy(v) ==
    CASE v.t = "none" -> FALSE
      [] v.t = "str" -> v.s # <<>>
      [] OTHER -> v.n # 0

\* int(v): the integer, or the exception int() raises.
IntOf(v) ==
    CASE v.t = "none" -> Raise("TypeError")
      [] v.t = "str" -> IF IsNumeral(v.s) THEN Ok(ParseDigits(v.s)) ELSE Raise("ValueError")
      [] OTHER -> Ok(v.n)

\* float(v): the float, or the exception float() raises.
FloatOf(v) ==
    CASE v.t = "none" -> Raise("TypeError")
      [] v.t = "str" -> IF IsNumeral(v.s) THEN Ok(PyFloat(ParseDigits(v.s))) ELSE Raise("ValueError")
      [] OTHER -> Ok(PyFloat(v.n))

\* str(v), as a character sequence.
StrOf(v) ==
    CASE v.t = "none" -> <<"N", "o", "n", "e">>
      [] v.t = "str" -> v.s
      [] v.t = "int" -> DecimalOf(v.n)
      [] OTHER -> DecimalOf(v.n) \o <<".", "0">>

\* Python's a == b on scalars: numbers compare by value, a str only equals a str.
PyEq(a, b) ==
    CASE a.t = "none" -> b.t = "none"
      [] a.t = "str" -> b.t = "str" /\ a.s = b.s
      [] OTHER -> b.t \in {"int", "float"} /\ a.n = b.n

\* float(x) if x is not None else None, the optional-number idiom of the constructors.
OptFloat(v) == IF v.t = "none" THEN Ok(None) ELSE FloatOf(v)

\* datetime.now().isoformat(): a timestamp string that differs from tick to tick.
IsoFormat(now) == PyStr(<<"T">> \o DecimalOf(now))

(***************************************************************************)
(* models.py.  An entity is a record of its attributes; a stored dict is a *)
(* function from the keys the JSON object has to their values, so a legacy *)
(* or damaged object may lack keys.                                        *)
(***************************************************************************)
\* data.get(k): the value, or None when the key is absent.
Get(d, k) == IF k \in DOMAIN d THEN d[k] ELSE None

\* data.get(k, default).
GetOr(d, k, default) == IF k \in DOMAIN d THEN d[k] ELSE default

Chr_live == <<"l", "i", "v", "e">>

Chr_AM == <<"A", "M">>

\* SharkPup.__init__
SharkPup(a, now) ==
    LET l == OptFloat(a.length)
        w == OptFloat(a.weight)
    IN  IF l.exc # "" THEN Raise(l.exc)
        ELSE IF w.exc # "" THEN Raise(w.exc)
        ELSE Ok([id |-> None, date |-> a.date, name |-> a.name,
                 length |-> l.val, weight |-> w.val, notes |-> a.notes,
                 date_of_birth |-> a.date_of_birth, mother_id |-> a.mother_id,
                 sex |-> a.sex, researcher |-> a.researcher, status |-> a.status,
                 created_at |-> IsoFormat(now)])

\* to_dict with the researcher key left out.
SharkPup_to_dict_NoResearcher(p) ==
    [id |-> p.id, date |-> p.date, name |-> p.name, length |-> p.length,
     weight |-> p.weight, notes |-> p.notes, date_of_birth |-> p.date_of_birth,
     mother_id |-> p.mother_id, sex |-> p.sex, status |-> p.status,
     created_at |-> p.created_at]

SharkPup_to_dict(p) ==
    [id |-> p.id, date |-> p.date, name |-> p.name, length |-> p.length,
     weight |-> p.weight, notes |-> p.notes, date_of_birth |-> p.date_of_birth,
     mother_id |-> p.mother_id, sex |-> p.sex, researcher |-> p.researcher,
     status |-> p.status, created_at |-> p.created_at]

SharkPup_from_dict(d, now) ==
    IF ~({"date", "name"} \subseteq DOMAIN d) THEN Raise("KeyError")
    ELSE ByValue(SharkPup([date |-> d["date"], name |-> d["name"],
                                length |-> Get(d, "length"), weight |-> Get(d, "weight"),
                                notes |-> Get(d, "notes"),
                                date_of_birth |-> Get(d, "date_of_birth"),
                                mother_id |-> Get(d, "mother_id"), sex |-> Get(d, "sex"),
                                researcher |-> Get(d, "researcher"),
                                status |-> GetOr(d, "status", PyStr(Chr_live))], now),
                 LAMBDA c :
                     IF c.exc # "" THEN c
                     ELSE IF ~({"id", "created_at"} \subseteq DOMAIN d) THEN Raise("KeyError")
                     ELSE Ok([c.val EXCEPT !.id = d["id"],
                                           !.created_at = d["created_at"]]))

\* FoodItem.__init__
FoodItem(food_type, amount, notes) ==
    LET f == FloatOf(amount)
    IN  IF f.exc # "" THEN Raise(f.exc)
        ELSE Ok([food_type |-> food_type, amount |-> f.val, notes |-> notes])

FoodItem_to_dict(i) == [food_type |-> i.food_type, amount |-> i.amount, notes |-> i.notes]

FoodItem_from_dict(d) ==
    IF ~({"food_type", "amount"} \subseteq DOMAIN d) THEN Raise("KeyError")
    ELSE FoodItem(d["food_type"], d["amount"], Get(d, "notes"))

\* FeedingSession.__init__
FeedingSession(a, now) ==
    Ok([id |-> None, pup_id |-> a.pup_id, date |-> a.date,
        session_notes |-> a.session_notes, feeding_time |-> a.feeding_time,
        food_items |-> <<>>, researcher |-> a.researcher,
        created_at |-> IsoFormat(now)])

\* FeedingSession.add_food_item: the session with the item appended, or the
\* exception FoodItem() raises.
add_food_item(session, food_type, amount, notes) ==
    LET i == FoodItem(food_type, amount, notes)
    IN  IF i.exc # "" THEN Raise(i.exc)
        ELSE Ok([session EXCEPT !.food_items = Append(@, i.val)])

\* to_dict with the food items listed last to first.
FeedingSession_to_dict_ReversedItems(x) ==
    [id |-> x.id, pup_id |-> x.pup_id, date |-> x.date,
     session_notes |-> x.session_notes, feeding_time |-> x.feeding_time,
     food_items |-> IF x.food_items = <<>> THEN <<>>
                    ELSE [i \in 1..Len(x.food_items) |->
                             FoodItem_to_dict(x.food_items[Len(x.food_items) + 1 - i])],
     researcher |-> x.researcher, created_at |-> x.created_at]

FeedingSession_to_dict(x) ==
    [id |-> x.id, pup_id |-> x.pup_id, date |-> x.date,
     session_notes |-> x.session_notes, feeding_time |-> x.feeding_time,
     food_items |-> IF x.food_items = <<>> THEN <<>>
                    ELSE [i \in 1..Len(x.food_items) |-> FoodItem_to_dict(x.food_items[i])],
     researcher |-> x.researcher, created_at |-> x.created_at]

FeedingSession_from_dict(d, now) ==
    IF ~({"pup_id", "date"} \subseteq DOMAIN d) THEN Raise("KeyError")
    ELSE LET c == FeedingSession([pup_id |-> d["pup_id"], date |-> d["date"],
                                  session_notes |-> Get(d, "session_notes"),
                                  feeding_time |-> GetOr(d, "feeding_time", PyStr(Chr_AM)),
                                  researcher |-> Get(d, "researcher")], now)
             raw == IF "food_items" \in DOMAIN d THEN d["food_items"] ELSE <<>>
         IN  ByValue([i \in 1..Len(raw) |-> FoodItem_from_dict(raw[i])],
                     LAMBDA its :
                         LET bad == {i \in 1..Len(raw) : its[i].exc # ""}
                         IN  IF ~({"id", "created_at"} \subseteq DOMAIN d) THEN Raise("KeyError")
                             ELSE IF bad # {}
                                  THEN Raise(its[CHOOSE i \in bad : \A j \in bad : i <= j].exc)
                             ELSE Ok([c.val EXCEPT
                                         !.id = d["id"], !.created_at = d["created_at"],
                                         !.food_items = IF raw = <<>> THEN <<>>
                                                        ELSE [i \in 1..Len(raw) |-> its[i].val]]))

\* FeedingRecord.__init__ (legacy)
FeedingRecord(a, now) ==
    LET f == FloatOf(a.amount)
    IN  IF f.exc # "" THEN Raise(f.exc)
        ELSE Ok([id |-> None, pup_id |-> a.pup_id, date |-> a.date,
                 food_type |-> a.food_type, amount |-> f.val, notes |-> a.notes,
                 created_at |-> IsoFormat(now)])

FeedingRecord_to_dict(r) ==
    [id |-> r.id, pup_id |-> r.pup_id, date |-> r.date, food_type |-> r.food_type,
     amount |-> r.amount, notes |-> r.notes, created_at |-> r.created_at]

FeedingRecord_from_dict(d, now) ==
    IF ~({"pup_id", "date", "food_type", "amount"} \subseteq DOMAIN d) THEN Raise("KeyError")
    ELSE ByValue(FeedingRecord([pup_id |-> d["pup_id"], date |-> d["date"],
                                     food_type |-> d["food_type"], amount |-> d["amount"],
                                     notes |-> Get(d, "notes")], now),
                 LAMBDA c :
                     IF c.exc # "" THEN c
                     ELSE IF ~({"id", "created_at"} \subseteq DOMAIN d) THEN Raise("KeyError")
                     ELSE Ok([c.val EXCEPT !.id = d["id"],
                                           !.created_at = d["created_at"]]))

\* TrainingRecord.__init__
TrainingRecord(a, now) ==
    LET n == IntOf(a.duration)
    IN  IF n.exc # "" THEN Raise(n.exc)
        ELSE Ok([id |-> None, pup_id |-> a.pup_id, date |-> a.date,
                 training_type |-> a.training_type, duration |-> PyInt(n.val),
                 progress |-> a.progress, notes |-> a.notes,
                 researcher |-> a.researcher, created_at |-> IsoFormat(now)])

TrainingRecord_to_dict(r) ==
    [id |-> r.id, pup_id |-> r.pup_id, date |-> r.date,
     training_type |-> r.training_type, duration |-> r.duration,
     progress |-> r.progress, notes |-> r.notes, researcher |-> r.researcher,
     created_at |-> r.created_at]

TrainingRecord_from_dict(d, now) ==
    IF ~({"pup_id", "date", "training_type", "duration", "progress"} \subseteq DOMAIN d)
    THEN Raise("KeyError")
    ELSE ByValue(TrainingRecord([pup_id |-> d["pup_id"], date |-> d["date"],
                                      training_type |-> d["training_type"],
                                      duration |-> d["duration"], progress |-> d["progress"],
                                      notes |-> Get(d, "notes"),
                                      researcher |-> Get(d, "researcher")], now),
                 LAMBDA c :
                     IF c.exc # "" THEN c
                     ELSE IF ~({"id", "created_at"} \subseteq DOMAIN d) THEN Raise("KeyError")
                     ELSE Ok([c.val EXCEPT !.id = d["id"],
                                           !.created_at = d["created_at"]]))

\* MeasurementRecord.__init__
MeasurementRecord(a, now) ==
    LET w == OptFloat(a.weight)
        l == OptFloat(a.length)
    IN  IF w.exc # "" THEN Raise(w.exc)
        ELSE IF l.exc # "" THEN Raise(l.exc)
        ELSE Ok([id |-> None, pup_id |-> a.pup_id, date |-> a.date,
                 weight |-> w.val, length |-> l.val, notes |-> a.notes,
                 created_at |-> IsoFormat(now)])

MeasurementRecord_to_dict(m) ==
    [id |-> m.id, pup_id |-> m.pup_id, date |-> m.date, weight |-> m.weight,
     length |-> m.length, notes |-> m.notes, created_at |-> m.created_at]

MeasurementRecord_from_dict(d, now) ==
    IF ~({"pup_id", "date"} \subseteq DOMAIN d) THEN Raise("KeyError")
    ELSE ByValue(MeasurementRecord([pup_id |-> d["pup_id"], date |-> d["date"],
                                         weight |-> Get(d, "weight"),
                                         length |-> Get(d, "length"),
                                         notes |-> Get(d, "notes")], now),
                 LAMBDA c :
                     IF c.exc # "" THEN c
                     ELSE IF ~({"id", "created_at"} \subseteq DOMAIN d) THEN Raise("KeyError")
                     ELSE Ok([c.val EXCEPT !.id = d["id"],
                                           !.created_at = d["created_at"]]))

(***************************************************************************)
(* data_manager.py: the backing files.  A file is readable JSON ("ok", its *)
(* data the list of stored dicts), absent, unreadable, or not decodable.   *)
(* An unreadable file keeps its content and stays unreadable when written. *)
(***************************************************************************)
Colls == {"pups", "feeding", "training", "sessions", "measurements"}

\* json.dump([], f) of DataManager.__init__
EmptyFile == [st |-> "ok", data |-> <<>>]

\* [op(x) for x in s]
MapSeq(op(_), s) == IF s = <<>> THEN <<>> ELSE [i \in 1..Len(s) |-> op(s[i])]

\* with open(file, "r") as f: json.load(f).  A file of no bytes ("empty") and one
\* of broken JSON ("garbled") both fail to decode.
LoadJson(f) ==
    CASE f.st = "missing" -> Raise("FileNotFoundError")
      [] f.st = "unreadable" -> Raise("PermissionError")
      [] f.st \in {"empty", "garbled"} -> Raise("JSONDecodeError")
      [] OTHER -> Ok(f.data)

\* [Entity.from_dict(d) for d in dicts]: the entities, or the first exception.
DecodeAll(from_dict(_, _), dicts, now) ==
    ByValue([i \in 1..Len(dicts) |-> from_dict(dicts[i], now)],
            LAMBDA rs :
                LET bad == {i \in 1..Len(dicts) : rs[i].exc # ""}
                IN  IF dicts = <<>> THEN Ok(<<>>)
                    ELSE IF bad # {}
                         THEN Raise(rs[CHOOSE i \in bad : \A j \in bad : i <= j].exc)
                    ELSE Ok([i \in 1..Len(dicts) |-> rs[i].val]))

\* The ways `with open(file, "w") as f: json.dump(...)` can end: it completes,
\* open() fails and the file is left alone, or open() has truncated the file and
\* the dump fails before the content is complete.
WriteOutcomes == {"ok", "openfail", "partial"}

\* The mutant of open_w: the file is opened for writing without being truncated.
open_w_NoTruncate(f) == f

\* open(file, "w"): the file exists and has no bytes.
open_w(f) == [st |-> IF f.st = "unreadable" THEN "unreadable" ELSE "empty", data |-> <<>>]

\* json.dump(dicts, f) and the close of the with block, on a file open_w opened.
\* The bytes go in at offset 0.  intact: they are all the file then holds, which
\* they are whenever the file had no bytes; bytes that another writer put there
\* after the open may reach past them and leave broken JSON.
flush(f, dicts, intact) ==
    [st |-> IF f.st = "unreadable" THEN "unreadable"
            ELSE IF intact \/ f.st = "empty" THEN "ok" ELSE "garbled",
     data |-> IF intact \/ f.st = "empty" THEN dicts ELSE <<>>]

json_dump(f, dicts, w) ==
    CASE w = "ok" -> flush(open_w(f), dicts, TRUE)
      [] w = "partial" -> [st |-> IF f.st = "unreadable" THEN "unreadable" ELSE "garbled",
                           data |-> <<>>]
      [] OTHER -> f

\* What a handler leaves behind: the file, what it returned ("entity", "None",
\* "True", "False") or that it raised, and how its write ended ("none" when it
\* never reached one).
Result(f, res, ent, exc, write) ==
    [file |-> f, res |-> res, ent |-> ent, exc |-> exc, write |-> write]

Raised(f, exc, write) == Result(f, "raise", <<>>, exc, write)

get_all_pups(f, now) ==
    ByValue(LoadJson(f),
            LAMBDA j :
                ByValue(IF j.exc # "" THEN j ELSE DecodeAll(SharkPup_from_dict, j.val, now),
                        LAMBDA r : IF r.exc # "" THEN Ok(<<>>) ELSE r))

get_all_feeding_records(f, now) ==
    ByValue(LoadJson(f),
            LAMBDA j :
                ByValue(IF j.exc # "" THEN j ELSE DecodeAll(FeedingRecord_from_dict, j.val, now),
                        LAMBDA r : IF r.exc # "" THEN Ok(<<>>) ELSE r))

get_all_training_records(f, now) ==
    ByValue(LoadJson(f),
            LAMBDA j :
                ByValue(IF j.exc # "" THEN j ELSE DecodeAll(TrainingRecord_from_dict, j.val, now),
                        LAMBDA r : IF r.exc # "" THEN Ok(<<>>) ELSE r))

get_all_feeding_sessions(f, now) ==
    ByValue(LoadJson(f),
            LAMBDA j :
                ByValue(IF j.exc # "" THEN j ELSE DecodeAll(FeedingSession_from_dict, j.val, now),
                        LAMBDA r : IF r.exc # "" THEN Ok(<<>>) ELSE r))

\* Only FileNotFoundError and json.JSONDecodeError are caught here.
get_all_measurements(f, now) ==
    ByValue(LoadJson(f),
            LAMBDA j :
                ByValue(IF j.exc # "" THEN j
                        ELSE DecodeAll(MeasurementRecord_from_dict, j.val, now),
                        LAMBDA r : IF r.exc \in {"FileNotFoundError", "JSONDecodeError"}
                                   THEN Ok(<<>>) ELSE r))

\* p.id or 0
IdOrZero(v) == IF Truthy(v) THEN v ELSE PyInt(0)

\* NextId with the "+ 1" forgotten.
NextId_NoIncrement(records) ==
    LET ids == [i \in 1..Len(records) |-> IdOrZero(records[i].id)]
        m == CHOOSE i \in 1..Len(records) : \A j \in 1..Len(records) : ids[j].n <= ids[i].n
    IN  IF records = <<>> THEN Ok(PyInt(0)) ELSE Ok(PyInt(ids[m].n))

\* max([r.id or 0 for r in records], default=0) if records else 0, plus 1.  A str
\* among the ids makes max() or the addition raise TypeError.
NextId(records) ==
    LET ids == [i \in 1..Len(records) |-> IdOrZero(records[i].id)]
        m == CHOOSE i \in 1..Len(records) :
                 /\ \A j \in 1..Len(records) : ids[j].n <= ids[i].n
                 /\ \A j \in 1..(i - 1) : ids[j].n < ids[i].n
    IN  IF records = <<>> THEN Ok(PyInt(1))
        ELSE IF \E i \in 1..Len(records) : ids[i].t = "str" THEN Raise("TypeError")
        ELSE Ok([t |-> ids[m].t, n |-> ids[m].n + 1, s |-> <<>>])

\* The max_id loop of add_measurement and str(max_id + 1).
NextMeasurementId(measurements) ==
    LET vs == [i \in 1..Len(measurements) |->
                  IF Truthy(measurements[i].id) THEN IntOf(measurements[i].id) ELSE Ok(0)]
        bad == {i \in 1..Len(measurements) : vs[i].exc # ""}
        top == IF measurements = <<>> THEN 0
               ELSE LET m == CHOOSE i \in 1..Len(measurements) :
                                 \A j \in 1..Len(measurements) : vs[j].val <= vs[i].val
                    IN  IF vs[m].val > 0 THEN vs[m].val ELSE 0
    IN  IF bad # {} THEN Raise(vs[CHOOSE i \in bad : \A j \in bad : i <= j].exc)
        ELSE Ok(PyStr(DecimalOf(top + 1)))

add_pup(f, pup, w, now) ==
    LET pups == get_all_pups(f, now).val
        nid == NextId(pups)
        p == [pup EXCEPT !.id = nid.val]
        pup_dicts == Append(MapSeq(SharkPup_to_dict, pups), SharkPup_to_dict(p))
    IN  IF nid.exc # "" THEN Result(f, "None", <<>>, "", "none")
        ELSE IF w = "ok" THEN Result(json_dump(f, pup_dicts, w), "entity", <<p>>, "", w)
        ELSE Result(json_dump(f, pup_dicts, w), "None", <<>>, "", w)

add_feeding_record(f, record, w, now) ==
    LET records == get_all_feeding_records(f, now).val
        nid == NextId(records)
        r == [record EXCEPT !.id = nid.val]
        record_dicts == Append(MapSeq(FeedingRecord_to_dict, records), FeedingRecord_to_dict(r))
    IN  IF nid.exc # "" THEN Result(f, "None", <<>>, "", "none")
        ELSE IF w = "ok" THEN Result(json_dump(f, record_dicts, w), "entity", <<r>>, "", w)
        ELSE Result(json_dump(f, record_dicts, w), "None", <<>>, "", w)

add_training_record(f, record, w, now) ==
    LET records == get_all_training_records(f, now).val
        nid == NextId(records)
        r == [record EXCEPT !.id = nid.val]
        record_dicts == Append(MapSeq(TrainingRecord_to_dict, records), TrainingRecord_to_dict(r))
    IN  IF nid.exc # "" THEN Result(f, "None", <<>>, "", "none")
        ELSE IF w = "ok" THEN Result(json_dump(f, record_dicts, w), "entity", <<r>>, "", w)
        ELSE Result(json_dump(f, record_dicts, w), "None", <<>>, "", w)

add_feeding_session(f, session, w, now) ==
    LET sessions == get_all_feeding_sessions(f, now).val
        nid == NextId(sessions)
        s == [session EXCEPT !.id = nid.val]
        session_dicts == Append(MapSeq(FeedingSession_to_dict, sessions), FeedingSession_to_dict(s))
    IN  IF nid.exc # "" THEN Result(f, "None", <<>>, "", "none")
        ELSE IF w = "ok" THEN Result(json_dump(f, session_dicts, w), "entity", <<s>>, "", w)
        ELSE Result(json_dump(f, session_dicts, w), "None", <<>>, "", w)

\* No try/except here: whatever the load, the id loop or the write raises
\* reaches the caller.
add_measurement(f, measurement, w, now) ==
    LET loaded == get_all_measurements(f, now)
        nid == IF measurement.id = None THEN NextMeasurementId(loaded.val)
               ELSE Ok(measurement.id)
        m == [measurement EXCEPT !.id = nid.val]
        dicts == MapSeq(MeasurementRecord_to_dict, Append(loaded.val, m))
    IN  IF loaded.exc # "" THEN Raised(f, loaded.exc, "none")
        ELSE IF nid.exc # "" THEN Raised(f, nid.exc, "none")
        ELSE IF w = "ok" THEN Result(json_dump(f, dicts, w), "entity", <<m>>, "", w)
        ELSE Raised(json_dump(f, dicts, w), "OSError", w)

\* The least index of a non-empty set of indices: the first match of a scan.
First(hits) == CHOOSE i \in hits : \A j \in hits : i <= j

\* s without its i-th element.
RemoveAt(s, i) == SubSeq(s, 1, i - 1) \o SubSeq(s, i + 1, Len(s))

Blank == PyStr(<<>>)

\* A full replace instead of a sparse patch: an absent key clears the attribute.
Patched_FullReplace(updated_data, k, old) ==
    IF k \in DOMAIN updated_data THEN updated_data[k] ELSE None

\* updated_data[k] if k in updated_data, else the attribute as it is.
Patched(updated_data, k, old) == IF k \in DOMAIN updated_data THEN updated_data[k] ELSE old

\* updated_data[k] if updated_data[k] != '' else None, when k is given.
PatchedOrNone(updated_data, k, old) ==
    IF k \in DOMAIN updated_data
    THEN IF PyEq(updated_data[k], Blank) THEN None ELSE updated_data[k]
    ELSE old

\* PatchedFloat that swallows the exception of float() and keeps the attribute.
PatchedFloat_KeepsOldOnError(updated_data, k, old) ==
    IF k \in DOMAIN updated_data /\ ~PyEq(updated_data[k], Blank)
           /\ FloatOf(updated_data[k]).exc = ""
    THEN FloatOf(updated_data[k])
    ELSE IF k \in DOMAIN updated_data /\ PyEq(updated_data[k], Blank) THEN Ok(None)
    ELSE Ok(old)

\* float(updated_data[k]) if updated_data[k] != '' else None, when k is given.
PatchedFloat(updated_data, k, old) ==
    IF k \in DOMAIN updated_data
    THEN IF PyEq(updated_data[k], Blank) THEN Ok(None) ELSE FloatOf(updated_data[k])
    ELSE Ok(old)

update_pup(f, pup_id, updated_data, w, now) ==
    LET pups == get_all_pups(f, now).val
        hits == {i \in 1..Len(pups) : PyEq(pups[i].id, pup_id)}
        i == First(hits)
        old == pups[i]
        length == PatchedFloat(updated_data, "length", old.length)
        weight == PatchedFloat(updated_data, "weight", old.weight)
        pup == [old EXCEPT
                   !.date = Patched(updated_data, "date", @),
                   !.name = Patched(updated_data, "name", @),
                   !.length = length.val,
                   !.weight = weight.val,
                   !.notes = Patched(updated_data, "notes", @),
                   !.date_of_birth = PatchedOrNone(updated_data, "date_of_birth", @),
                   !.mother_id = PatchedOrNone(updated_data, "mother_id", @),
                   !.status = Patched(updated_data, "status", @),
                   !.sex = PatchedOrNone(updated_data, "sex", @)]
        pup_dicts == MapSeq(SharkPup_to_dict, [pups EXCEPT ![i] = pup])
    IN  IF hits = {} THEN Result(f, "None", <<>>, "", "none")
        ELSE IF length.exc # "" \/ weight.exc # "" THEN Result(f, "None", <<>>, "", "none")
        ELSE IF w = "ok" THEN Result(json_dump(f, pup_dicts, w), "entity", <<pup>>, "", w)
        ELSE Result(json_dump(f, pup_dicts, w), "None", <<>>, "", w)

get_pup_by_id(f, pup_id, now) ==
    LET pups == get_all_pups(f, now).val
        hits == {i \in 1..Len(pups) : StrOf(pups[i].id) = StrOf(pup_id)}
    IN  IF hits = {} THEN Ok(<<>>) ELSE Ok(<<pups[First(hits)]>>)

get_training_record_by_id(f, record_id, now) ==
    LET records == get_all_training_records(f, now).val
        hits == {i \in 1..Len(records) : PyEq(records[i].id, record_id)}
    IN  IF hits = {} THEN Ok(<<>>) ELSE Ok(<<records[First(hits)]>>)

update_training_record(f, record_id, updated_data, w, now) ==
    LET records == get_all_training_records(f, now).val
        hits == {i \in 1..Len(records) : PyEq(records[i].id, record_id)}
        i == First(hits)
        old == records[i]
        duration == IF "duration" \in DOMAIN updated_data
                    THEN IntOf(updated_data["duration"]) ELSE Ok(old.duration.n)
        record_to_update ==
            [old EXCEPT
                !.date = Patched(updated_data, "date", @),
                !.training_type = Patched(updated_data, "training_type", @),
                !.duration = IF "duration" \in DOMAIN updated_data THEN PyInt(duration.val) ELSE @,
                !.progress = Patched(updated_data, "progress", @),
                !.notes = Patched(updated_data, "notes", @)]
        record_dicts == MapSeq(TrainingRecord_to_dict,
                               Append(RemoveAt(records, i), record_to_update))
    IN  IF hits = {} THEN Result(f, "None", <<>>, "", "none")
        ELSE IF duration.exc # "" THEN Result(f, "None", <<>>, "", "none")
        ELSE IF w = "ok"
             THEN Result(json_dump(f, record_dicts, w), "entity", <<record_to_update>>, "", w)
        ELSE Result(json_dump(f, record_dicts, w), "None", <<>>, "", w)

\* delete_training_record with "<=" for "<": it rewrites and reports a deletion always.
delete_training_record_Lte(f, record_id, w, now) ==
    LET records == get_all_training_records(f, now).val
        kept == SelectSeq(records, LAMBDA r : ~PyEq(r.id, record_id))
        record_dicts == MapSeq(TrainingRecord_to_dict, kept)
    IN  IF w = "ok" THEN Result(json_dump(f, record_dicts, w), "True", <<>>, "", w)
        ELSE Result(json_dump(f, record_dicts, w), "False", <<>>, "", w)

delete_training_record(f, record_id, w, now) ==
    LET records == get_all_training_records(f, now).val
        kept == SelectSeq(records, LAMBDA r : ~PyEq(r.id, record_id))
        record_dicts == MapSeq(TrainingRecord_to_dict, kept)
    IN  IF Len(kept) < Len(records)
        THEN IF w = "ok" THEN Result(json_dump(f, record_dicts, w), "True", <<>>, "", w)
             ELSE Result(json_dump(f, record_dicts, w), "False", <<>>, "", w)
        ELSE Result(f, "False", <<>>, "", "none")

get_feeding_session_by_id(f, session_id, now) ==
    LET sessions == get_all_feeding_sessions(f, now).val
        hits == {i \in 1..Len(sessions) : PyEq(sessions[i].id, session_id)}
    IN  IF hits = {} THEN Ok(<<>>) ELSE Ok(<<sessions[First(hits)]>>)

\* session.food_items = []; add_food_item(...) for each item_data of the update.
RebuildFoodItems(item_dicts) ==
    LET its == [k \in 1..Len(item_dicts) |->
                   IF ~({"food_type", "amount"} \subseteq DOMAIN item_dicts[k])
                   THEN Raise("KeyError")
                   ELSE FoodItem(item_dicts[k]["food_type"], item_dicts[k]["amount"],
                                 GetOr(item_dicts[k], "notes", Blank))]
        bad == {k \in 1..Len(item_dicts) : its[k].exc # ""}
    IN  IF item_dicts = <<>> THEN Ok(<<>>)
        ELSE IF bad # {} THEN Raise(its[First(bad)].exc)
        ELSE Ok([k \in 1..Len(item_dicts) |-> its[k].val])

update_feeding_session(f, session_id, updated_data, w, now) ==
    LET sessions == get_all_feeding_sessions(f, now).val
        hits == {i \in 1..Len(sessions) : PyEq(sessions[i].id, session_id)}
        i == First(hits)
        old == sessions[i]
        items == IF "food_items" \in DOMAIN updated_data
                 THEN RebuildFoodItems(updated_data["food_items"]) ELSE Ok(old.food_items)
        session_to_update ==
            [old EXCEPT
                !.date = Patched(updated_data, "date", @),
                !.session_notes = Patched(updated_data, "session_notes", @),
                !.feeding_time = Patched(updated_data, "feeding_time", @),
                !.food_items = items.val]
        session_dicts == MapSeq(FeedingSession_to_dict,
                                Append(RemoveAt(sessions, i), session_to_update))
    IN  IF hits = {} THEN Result(f, "None", <<>>, "", "none")
        ELSE IF items.exc # "" THEN Result(f, "None", <<>>, "", "none")
        ELSE IF w = "ok"
             THEN Result(json_dump(f, session_dicts, w), "entity", <<session_to_update>>, "", w)
        ELSE Result(json_dump(f, session_dicts, w), "None", <<>>, "", w)

delete_feeding_session(f, session_id, w, now) ==
    LET sessions == get_all_feeding_sessions(f, now).val
        kept == SelectSeq(sessions, LAMBDA s : ~PyEq(s.id, session_id))
        session_dicts == MapSeq(FeedingSession_to_dict, kept)
    IN  IF Len(kept) < Len(sessions)
        THEN IF w = "ok" THEN Result(json_dump(f, session_dicts, w), "True", <<>>, "", w)
             ELSE Result(json_dump(f, session_dicts, w), "False", <<>>, "", w)
        ELSE Result(f, "False", <<>>, "", "none")

\* No try/except in the measurement handlers: an exception of the load reaches
\* the caller.
get_measurement_by_id(f, measurement_id, now) ==
    LET loaded == get_all_measurements(f, now)
        hits == {i \in 1..Len(loaded.val) : PyEq(loaded.val[i].id, measurement_id)}
    IN  IF loaded.exc # "" THEN Raise(loaded.exc)
        ELSE IF hits = {} THEN Ok(<<>>) ELSE Ok(<<loaded.val[First(hits)]>>)

\* for key, value in updated_data.items(): setattr(measurement, key, value)
SetAttrs(measurement, updated_data) ==
    [k \in DOMAIN measurement |->
        IF k \in DOMAIN updated_data THEN updated_data[k] ELSE measurement[k]]

\* update_measurement with the write moved out of the loop: it runs on a miss too.
update_measurement_WritesOnMiss(f, measurement_id, updated_data, w, now) ==
    LET loaded == get_all_measurements(f, now)
        measurements == loaded.val
        hits == {i \in 1..Len(measurements) : PyEq(measurements[i].id, measurement_id)}
        i == First(hits)
        measurement == SetAttrs(measurements[i], updated_data)
        dicts == MapSeq(MeasurementRecord_to_dict,
                        IF hits = {} THEN measurements
                        ELSE [measurements EXCEPT ![i] = measurement])
    IN  IF loaded.exc # "" THEN Raised(f, loaded.exc, "none")
        ELSE IF w # "ok" THEN Raised(json_dump(f, dicts, w), "OSError", w)
        ELSE IF hits = {} THEN Result(json_dump(f, dicts, w), "None", <<>>, "", w)
        ELSE Result(json_dump(f, dicts, w), "entity", <<measurement>>, "", w)

update_measurement(f, measurement_id, updated_data, w, now) ==
    LET loaded == get_all_measurements(f, now)
        measurements == loaded.val
        hits == {i \in 1..Len(measurements) : PyEq(measurements[i].id, measurement_id)}
        i == First(hits)
        measurement == SetAttrs(measurements[i], updated_data)
        dicts == MapSeq(MeasurementRecord_to_dict, [measurements EXCEPT ![i] = measurement])
    IN  IF loaded.exc # "" THEN Raised(f, loaded.exc, "none")
        ELSE IF hits = {} THEN Result(f, "None", <<>>, "", "none")
        ELSE IF w = "ok" THEN Result(json_dump(f, dicts, w), "entity", <<measurement>>, "", w)
        ELSE Raised(json_dump(f, dicts, w), "OSError", w)

delete_measurement(f, measurement_id, w, now) ==
    LET loaded == get_all_measurements(f, now)
        measurements == loaded.val
        hits == {i \in 1..Len(measurements) : PyEq(measurements[i].id, measurement_id)}
        dicts == MapSeq(MeasurementRecord_to_dict, RemoveAt(measurements, First(hits)))
    IN  IF loaded.exc # "" THEN Raised(f, loaded.exc, "none")
        ELSE IF hits = {} THEN Result(f, "False", <<>>, "", "none")
        ELSE IF w = "ok" THEN Result(json_dump(f, dicts, w), "True", <<>>, "", w)
        ELSE Raised(json_dump(f, dicts, w), "OSError", w)

(***************************************************************************)
(* The calls the model makes.  Form values arrive as strings, as routes.py *)
(* passes them on; the constructors and the update handlers convert them.  *)
(***************************************************************************)
Chr_D1 == <<"2", "0", "2", "4", "-", "0", "1", "-", "0", "5">>

Chr_D2 == <<"2", "0", "2", "4", "-", "0", "2", "-", "0", "1">>

Chr_D3 == <<"2", "0", "2", "4", "-", "0", "1", "-", "1", "5">>

Chr_D4 == <<"2", "0", "2", "4", "-", "0", "1", "-", "2", "0">>

Chr_Finn == <<"F", "i", "n", "n">>

Chr_Gill == <<"G", "i", "l", "l">>

Chr_amy == <<"a", "m", "y">>

Chr_bob == <<"b", "o", "b">>

Chr_ok == <<"o", "k">>

Chr_Male == <<"M", "a", "l", "e">>

Chr_M7 == <<"M", "7">>

Chr_stillborn == <<"s", "t", "i", "l", "l", "b", "o", "r", "n">>

Chr_PM == <<"P", "M">>

Chr_squid == <<"s", "q", "u", "i", "d">>

Chr_fish == <<"f", "i", "s", "h">>

Chr_target == <<"t", "a", "r", "g", "e", "t">>

Chr_recall == <<"r", "e", "c", "a", "l", "l">>

Chr_Started == <<"S", "t", "a", "r", "t", "e", "d">>

Chr_Completed == <<"C", "o", "m", "p", "l", "e", "t", "e", "d">>

Chr_x == <<"x">>

\* The most calls one behaviour makes.
MaxCalls == 4

\* add_pup of routes.py: SharkPup(date=..., length=..., researcher=current_user.username, ...)
PupArgs ==
    { [date |-> PyStr(Chr_D1), name |-> PyStr(Chr_Finn), notes |-> Blank,
       length |-> PyStr(<<"1", "2">>), weight |-> None, date_of_birth |-> None,
       mother_id |-> None, sex |-> PyStr(Chr_Male), researcher |-> PyStr(Chr_amy),
       status |-> PyStr(Chr_live)],
      [date |-> PyStr(Chr_D2), name |-> PyStr(Chr_Gill), notes |-> PyStr(Chr_ok),
       length |-> None, weight |-> PyStr(<<"3", "0">>), date_of_birth |-> PyStr(Chr_D1),
       mother_id |-> PyStr(Chr_M7), sex |-> None, researcher |-> PyStr(Chr_bob),
       status |-> PyStr(Chr_stillborn)],
      [date |-> PyStr(Chr_D4), name |-> PyStr(Chr_Gill), notes |-> None,
       length |-> PyStr(<<"2", "0">>), weight |-> PyStr(<<"5", "0">>), date_of_birth |-> None,
       mother_id |-> PyStr(Chr_M7), sex |-> None, researcher |-> PyStr(Chr_amy),
       status |-> PyStr(Chr_live)] }

\* FeedingRecord(pup_id, date, food_type, amount, notes)
FeedingArgs ==
    { [pup_id |-> PyInt(1), date |-> PyStr(Chr_D1), food_type |-> PyStr(Chr_squid),
       amount |-> PyStr(<<"7">>), notes |-> None],
      [pup_id |-> PyInt(2), date |-> PyStr(Chr_D2), food_type |-> PyStr(Chr_fish),
       amount |-> PyInt(3), notes |-> PyStr(Chr_ok)] }

\* training of routes.py: pup_id = int(request.form.get('pup_id', 0)), duration a form string
TrainingArgs ==
    { [pup_id |-> PyInt(1), date |-> PyStr(Chr_D1), training_type |-> PyStr(Chr_target),
       duration |-> PyStr(<<"1", "5">>), progress |-> PyStr(Chr_Started), notes |-> Blank,
       researcher |-> PyStr(Chr_amy)],
      [pup_id |-> PyInt(0), date |-> PyStr(Chr_D2), training_type |-> PyStr(Chr_recall),
       duration |-> PyStr(<<"2", "0">>), progress |-> PyStr(Chr_Completed),
       notes |-> PyStr(Chr_ok), researcher |-> PyStr(Chr_bob)] }

\* feeding of routes.py: the session and the food items of the form
SessionArgs ==
    { [pup_id |-> PyInt(1), date |-> PyStr(Chr_D1), session_notes |-> Blank,
       feeding_time |-> PyStr(Chr_AM), researcher |-> PyStr(Chr_amy),
       items |-> << [food_type |-> PyStr(Chr_squid), amount |-> PyStr(<<"5">>), notes |-> Blank] >>],
      [pup_id |-> PyInt(2), date |-> PyStr(Chr_D2), session_notes |-> PyStr(Chr_ok),
       feeding_time |-> PyStr(Chr_PM), researcher |-> PyStr(Chr_bob),
       items |-> << [food_type |-> PyStr(Chr_fish), amount |-> PyStr(<<"1", "2">>), notes |-> Blank],
                    [food_type |-> PyStr(Chr_squid), amount |-> PyStr(<<"3">>),
                     notes |-> PyStr(Chr_x)] >>],
      [pup_id |-> PyInt(1), date |-> PyStr(Chr_D2), session_notes |-> Blank,
       feeding_time |-> PyStr(Chr_AM), researcher |-> PyStr(Chr_amy),
       items |-> << [food_type |-> PyStr(Chr_fish), amount |-> PyStr(<<"0">>), notes |-> Blank] >>] }

\* measurements of routes.py: weight and length already float or None
MeasurementArgs ==
    { [pup_id |-> PyInt(1), date |-> PyStr(Chr_D1), weight |-> PyFloat(1000),
       length |-> None, notes |-> None],
      [pup_id |-> PyInt(1), date |-> PyStr(Chr_D2), weight |-> None,
       length |-> PyFloat(30), notes |-> PyStr(Chr_ok)],
      [pup_id |-> PyInt(2), date |-> PyStr(Chr_D3), weight |-> PyFloat(1200),
       length |-> PyFloat(35), notes |-> None] }

\* updated_data of update_pup: a rename; the blank and numeric form strings with
\* the researcher key the route adds; a date with a blank sex and a key 'id'; a
\* non-numeric length.
PupPatches ==
    << [name |-> PyStr(Chr_Gill)],
       [length |-> Blank, weight |-> PyStr(<<"3", "0">>), researcher |-> PyStr(Chr_bob)],
       [date |-> PyStr(Chr_D2), sex |-> Blank, status |-> PyStr(Chr_stillborn),
        id |-> PyInt(2)],
       [length |-> PyStr(Chr_x)] >>

TrainingPatches ==
    << [progress |-> PyStr(Chr_Completed)],
       [date |-> PyStr(Chr_D2), duration |-> PyStr(<<"2", "0">>), notes |-> PyStr(Chr_ok),
        id |-> PyInt(2)],
       [duration |-> PyStr(Chr_x)] >>

SessionPatches ==
    << [feeding_time |-> PyStr(Chr_PM)],
       [date |-> PyStr(Chr_D2), session_notes |-> PyStr(Chr_ok),
        food_items |-> << [food_type |-> PyStr(Chr_fish), amount |-> PyStr(<<"5">>)] >>],
       [food_items |-> << [food_type |-> PyStr(Chr_fish), amount |-> PyStr(Chr_x),
                           notes |-> Blank] >>],
       [food_items |-> <<>>] >>

\* updated_data of update_measurement: any attribute name is accepted.
MeasurementPatches ==
    << [weight |-> PyFloat(1200)],
       [date |-> PyStr(Chr_D2), length |-> None, notes |-> PyStr(Chr_ok)],
       [id |-> PyStr(<<"2">>)],
       [created_at |-> IsoFormat(0)] >>

\* The ids the calls look up: those a behaviour can have assigned before its last
\* call, as ints and as the strings the measurement routes pass.
IntIds == {PyInt(n) : n \in 1..(MaxCalls - 2)}

StrIds == {PyStr(DecimalOf(n)) : n \in 1..(MaxCalls - 2)}

(***************************************************************************)
(* The store in use by one process: each step is one call of a handler.    *)
(***************************************************************************)
VARIABLES
    files,      \* collection -> its backing file
    pre,        \* the files as they were before the last call
    last,       \* the last call: handler, arguments and what it returned
    assigned,   \* collection -> the ids its successful adds returned, in call order
    trace,      \* the handlers called so far
    clock,      \* the tick datetime.now() reads
    procs,      \* request handler -> where it is in its add call
    done,       \* the add calls concurrent handlers have completed, in order
    user        \* current_user of the session that sends the requests

vars == <<files, pre, last, assigned, trace, clock, procs, done, user>>

\* current_user.is_authenticated is False.
Anonymous == "anonymous"

Procs == {1, 2}

\* The add calls the concurrent handlers make in one behaviour.
MaxConcCalls == 3

Idle == [pc |-> "idle", coll |-> "", ent |-> <<>>, snap |-> <<>>, tLoad |-> 0, tOpen |-> 0]

NoCall ==
    [op |-> "", coll |-> "", arg |-> None, patch |-> <<>>, res |-> "", ent |-> <<>>,
     exc |-> "", write |-> "none"]

\* DataManager.__init__: every file exists and holds [].
Init ==
    /\ files = [c \in Colls |-> EmptyFile]
    /\ pre = [c \in Colls |-> EmptyFile]
    /\ last = NoCall
    /\ assigned = [c \in Colls |-> <<>>]
    /\ trace = <<>>
    /\ clock = 1
    /\ procs = [p \in Procs |-> Idle]
    /\ done = <<>>
    /\ user = Anonymous

\* No handler reads or writes the file of another collection, so a behaviour
\* stays with the collection of its first call.
SameCollection(c) == last.coll \in {"", c}

\* The last step was a query.  A query leaves the store as it found it, so the
\* calls that can follow it are the calls that can follow the state it read: a
\* behaviour makes its query last.  A login, a logout and a redirect are no query.
Queried == last.op \notin {"", "add", "update", "delete", "fault", "login", "logout", "redirect"}

CanCall(c) == Len(trace) < MaxCalls /\ SameCollection(c) /\ ~Queried

\* The call op(arg, patch) on collection c ended as r.
Record(op, c, arg, patch, r) ==
    /\ files' = [files EXCEPT ![c] = r.file]
    /\ pre' = files
    /\ last' = [op |-> op, coll |-> c, arg |-> arg, patch |-> patch, res |-> r.res,
                ent |-> r.ent, exc |-> r.exc, write |-> r.write]
    /\ assigned' = IF op = "add" /\ r.res = "entity"
                   THEN [assigned EXCEPT ![c] = Append(@, r.ent[1].id)]
                   ELSE assigned
    /\ trace' = Append(trace, op)
    /\ clock' = clock + 1
    /\ UNCHANGED <<procs, done, user>>

RECURSIVE AddItems(_, _)
\* session.add_food_item(...) for each food item of the form
AddItems(session, items) ==
    IF items = <<>> THEN Ok(session)
    ELSE LET r == add_food_item(session, Head(items).food_type, Head(items).amount,
                                Head(items).notes)
         IN  IF r.exc # "" THEN r ELSE AddItems(r.val, Tail(items))

NewSession(x, now) == AddItems(FeedingSession(x, now).val, x.items)

AddPup(a, w) ==
    /\ CanCall("pups")
    /\ LET e == SharkPup(a, clock)
       IN  /\ e.exc = ""
           /\ Record("add", "pups", None, <<>>, add_pup(files["pups"], e.val, w, clock))

AddFeedingRecord(a, w) ==
    /\ CanCall("feeding")
    /\ LET e == FeedingRecord(a, clock)
       IN  /\ e.exc = ""
           /\ Record("add", "feeding", None, <<>>,
                     add_feeding_record(files["feeding"], e.val, w, clock))

AddTrainingRecord(a, w) ==
    /\ CanCall("training")
    /\ LET e == TrainingRecord(a, clock)
       IN  /\ e.exc = ""
           /\ Record("add", "training", None, <<>>,
                     add_training_record(files["training"], e.val, w, clock))

AddFeedingSession(x, w) ==
    /\ CanCall("sessions")
    /\ LET e == NewSession(x, clock)
       IN  /\ e.exc = ""
           /\ Record("add", "sessions", None, <<>>,
                     add_feeding_session(files["sessions"], e.val, w, clock))

AddMeasurement(a, w) ==
    /\ CanCall("measurements")
    /\ LET e == MeasurementRecord(a, clock)
       IN  /\ e.exc = ""
           /\ Record("add", "measurements", None, <<>>,
                     add_measurement(files["measurements"], e.val, w, clock))

UpdatePup(id, k, w) ==
    /\ CanCall("pups")
    /\ Record("update", "pups", id, <<PupPatches[k]>>,
              update_pup(files["pups"], id, PupPatches[k], w, clock))

UpdateTrainingRecord(id, k, w) ==
    /\ CanCall("training")
    /\ Record("update", "training", id, <<TrainingPatches[k]>>,
              update_training_record(files["training"], id, TrainingPatches[k], w, clock))

UpdateFeedingSession(id, k, w) ==
    /\ CanCall("sessions")
    /\ Record("update", "sessions", id, <<SessionPatches[k]>>,
              update_feeding_session(files["sessions"], id, SessionPatches[k], w, clock))

UpdateMeasurement(id, k, w) ==
    /\ CanCall("measurements")
    /\ Record("update", "measurements", id, <<MeasurementPatches[k]>>,
              update_measurement(files["measurements"], id, MeasurementPatches[k], w, clock))

DeleteTrainingRecord(id, w) ==
    /\ CanCall("training")
    /\ Record("delete", "training", id, <<>>,
              delete_training_record(files["training"], id, w, clock))

DeleteFeedingSession(id, w) ==
    /\ CanCall("sessions")
    /\ Record("delete", "sessions", id, <<>>,
              delete_feeding_session(files["sessions"], id, w, clock))

DeleteMeasurement(id, w) ==
    /\ CanCall("measurements")
    /\ Record("delete", "measurements", id, <<>>,
              delete_measurement(files["measurements"], id, w, clock))

\* One process, storage that does not fail.
Next ==
    \/ \E a \in PupArgs : AddPup(a, "ok")
    \/ \E a \in FeedingArgs : AddFeedingRecord(a, "ok")
    \/ \E a \in TrainingArgs : AddTrainingRecord(a, "ok")
    \/ \E x \in SessionArgs : AddFeedingSession(x, "ok")
    \/ \E a \in MeasurementArgs : AddMeasurement(a, "ok")
    \/ \E id \in IntIds, k \in 1..Len(PupPatches) : UpdatePup(id, k, "ok")
    \/ \E id \in IntIds, k \in 1..Len(TrainingPatches) : UpdateTrainingRecord(id, k, "ok")
    \/ \E id \in IntIds, k \in 1..Len(SessionPatches) : UpdateFeedingSession(id, k, "ok")
    \/ \E id \in StrIds, k \in 1..Len(MeasurementPatches) : UpdateMeasurement(id, k, "ok")
    \/ \E id \in IntIds : DeleteTrainingRecord(id, "ok")
    \/ \E id \in IntIds : DeleteFeedingSession(id, "ok")
    \/ \E id \in StrIds : DeleteMeasurement(id, "ok")

Spec == Init /\ [][Next]_vars

(***************************************************************************)
(* update_measurement called with the strings of the form as they are: the *)
(* route edit_measurement converts a blank weight or length to None before *)
(* the call, the store itself does not.                                    *)
(***************************************************************************)
FormPatches ==
    << [weight |-> Blank],
       [date |-> PyStr(Chr_D2), length |-> Blank, notes |-> Blank] >>

UpdateMeasurementForm(id, k, w) ==
    /\ CanCall("measurements")
    /\ Record("update", "measurements", id, <<FormPatches[k]>>,
              update_measurement(files["measurements"], id, FormPatches[k], w, clock))

NextForm ==
    \/ Next
    \/ \E id \in StrIds, k \in 1..Len(FormPatches) : UpdateMeasurementForm(id, k, "ok")

SpecForm == Init /\ [][NextForm]_vars

(***************************************************************************)
(* The store on storage that fails: a write may fail before or after it    *)
(* has truncated the file, and the file may be deleted, made unreadable,   *)
(* cut short, or left holding an object that lacks keys.                   *)
(***************************************************************************)
FaultKinds == {"missing", "unreadable", "readable", "garbled", "damaged"}

\* A JSON object cut off after its first keys.
Stub == [id |-> None, notes |-> Blank]

Faulted(f, kind) ==
    CASE kind = "missing" -> [st |-> "missing", data |-> <<>>]
      [] kind = "unreadable" -> [st |-> "unreadable", data |-> f.data]
      [] kind = "readable" -> [st |-> "ok", data |-> f.data]
      [] kind = "garbled" -> [st |-> "garbled", data |-> <<>>]
      [] OTHER -> [st |-> f.st, data |-> Append(f.data, Stub)]

StorageFault(c, kind) ==
    /\ CanCall(c)
    /\ kind = "readable" => files[c].st = "unreadable"
    /\ kind # "readable" => files[c].st = "ok"
    /\ Record("fault", c, None, <<>>, Result(Faulted(files[c], kind), "", <<>>, "", "none"))

NextFault ==
    \/ \E a \in PupArgs, w \in WriteOutcomes : AddPup(a, w)
    \/ \E a \in FeedingArgs, w \in WriteOutcomes : AddFeedingRecord(a, w)
    \/ \E a \in TrainingArgs, w \in WriteOutcomes : AddTrainingRecord(a, w)
    \/ \E x \in SessionArgs, w \in WriteOutcomes : AddFeedingSession(x, w)
    \/ \E a \in MeasurementArgs, w \in WriteOutcomes : AddMeasurement(a, w)
    \/ \E id \in IntIds, k \in 1..Len(PupPatches), w \in WriteOutcomes : UpdatePup(id, k, w)
    \/ \E id \in IntIds, k \in 1..Len(TrainingPatches), w \in WriteOutcomes :
           UpdateTrainingRecord(id, k, w)
    \/ \E id \in IntIds, k \in 1..Len(SessionPatches), w \in WriteOutcomes :
           UpdateFeedingSession(id, k, w)
    \/ \E id \in StrIds, k \in 1..Len(MeasurementPatches), w \in WriteOutcomes :
           UpdateMeasurement(id, k, w)
    \/ \E id \in IntIds, w \in WriteOutcomes : DeleteTrainingRecord(id, w)
    \/ \E id \in IntIds, w \in WriteOutcomes : DeleteFeedingSession(id, w)
    \/ \E id \in StrIds, w \in WriteOutcomes : DeleteMeasurement(id, w)
    \/ \E c \in Colls, kind \in FaultKinds : StorageFault(c, kind)

SpecFault == Init /\ [][NextFault]_vars

(***************************************************************************)
(* Two request handlers in add calls at once.  The store takes no lock: an *)
(* add is a load of the file, then open(file, "w"), which truncates it,    *)
(* then the dump of the loaded records and the new one.                    *)
(***************************************************************************)
ArgsOf(c) ==
    CASE c = "pups" -> PupArgs
      [] c = "feeding" -> FeedingArgs
      [] c = "training" -> TrainingArgs
      [] c = "sessions" -> SessionArgs
      [] OTHER -> MeasurementArgs

\* The entity the route constructs and hands to add.
Construct(c, a, now) ==
    CASE c = "pups" -> SharkPup(a, now)
      [] c = "feeding" -> FeedingRecord(a, now)
      [] c = "training" -> TrainingRecord(a, now)
      [] c = "sessions" -> NewSession(a, now)
      [] OTHER -> MeasurementRecord(a, now)

\* The load at the head of the add of collection c.
LoadOf(c, f, now) ==
    CASE c = "pups" -> get_all_pups(f, now)
      [] c = "feeding" -> get_all_feeding_records(f, now)
      [] c = "training" -> get_all_training_records(f, now)
      [] c = "sessions" -> get_all_feeding_sessions(f, now)
      [] OTHER -> get_all_measurements(f, now)

\* The id the add of collection c computes from what it loaded.
NextIdOf(c, records) ==
    IF c = "measurements" THEN NextMeasurementId(records) ELSE NextId(records)

\* The dicts the add of collection c dumps.
DictsOf(c, records) ==
    CASE c = "pups" -> MapSeq(SharkPup_to_dict, records)
      [] c = "feeding" -> MapSeq(FeedingRecord_to_dict, records)
      [] c = "training" -> MapSeq(TrainingRecord_to_dict, records)
      [] c = "sessions" -> MapSeq(FeedingSession_to_dict, records)
      [] OTHER -> MapSeq(MeasurementRecord_to_dict, records)

\* Handler p enters add: it loads the collection and sets the id of its entity.
AddLoad(p, c, a) ==
    /\ procs[p].pc = "idle"
    /\ Len(trace) < MaxConcCalls
    /\ \A q \in Procs : procs[q].coll \in {"", c}
    /\ LET e == Construct(c, a, clock)
           loaded == LoadOf(c, files[c], clock)
           nid == NextIdOf(c, loaded.val)
       IN  /\ e.exc = "" /\ loaded.exc = "" /\ nid.exc = ""
           /\ procs' = [procs EXCEPT ![p] =
                  [pc |-> "loaded", coll |-> c, ent |-> <<[e.val EXCEPT !.id = nid.val]>>,
                   snap |-> loaded.val, tLoad |-> clock, tOpen |-> 0]]
    /\ trace' = Append(trace, "add")
    /\ clock' = clock + 1
    /\ UNCHANGED <<files, pre, last, assigned, done, user>>

\* Handler p opens the file for writing.
AddOpen(p) ==
    /\ procs[p].pc = "loaded"
    /\ files' = [files EXCEPT ![procs[p].coll] = open_w(@)]
    /\ procs' = [procs EXCEPT ![p].pc = "opened", ![p].tOpen = clock]
    /\ clock' = clock + 1
    /\ UNCHANGED <<pre, last, assigned, trace, done, user>>

\* Handler p dumps, closes and returns its entity.
AddClose(p, intact) ==
    /\ procs[p].pc = "opened"
    /\ LET c == procs[p].coll
           dicts == DictsOf(c, procs[p].snap \o procs[p].ent)
       IN  /\ files' = [files EXCEPT ![c] = flush(@, dicts, intact)]
           /\ assigned' = [assigned EXCEPT ![c] = Append(@, procs[p].ent[1].id)]
    /\ done' = Append(done, [proc |-> p, ent |-> procs[p].ent[1], snap |-> procs[p].snap,
                             tLoad |-> procs[p].tLoad, tOpen |-> procs[p].tOpen,
                             tClose |-> clock])
    /\ procs' = [procs EXCEPT ![p] = [Idle EXCEPT !.coll = procs[p].coll]]
    /\ clock' = clock + 1
    /\ UNCHANGED <<pre, last, trace, user>>

NextConc ==
    \/ \E p \in Procs, c \in Colls : \E a \in ArgsOf(c) : AddLoad(p, c, a)
    \/ \E p \in Procs : AddOpen(p)
    \/ \E p \in Procs, intact \in BOOLEAN : AddClose(p, intact)

SpecConc == Init /\ [][NextConc]_vars

(***************************************************************************)
(* data_manager.py: the lookups.  A query reads its collection and returns; *)
(* it is no call of the history the store keeps, and the clock stands.     *)
(***************************************************************************)
\* find_by_id of collection c on file f; the legacy feeding records have none.
FindOf(c, f, id, now) ==
    CASE c = "pups" -> get_pup_by_id(f, id, now)
      [] c = "training" -> get_training_record_by_id(f, id, now)
      [] c = "sessions" -> get_feeding_session_by_id(f, id, now)
      [] OTHER -> get_measurement_by_id(f, id, now)

\* [r for r in records if r.pup_id == pup_id]
WherePupIs(records, pup_id) == SelectSeq(records, LAMBDA r : PyEq(r.pup_id, pup_id))

\* [m for m in records if str(m.pup_id) == str(pup_id)]
WherePupStrIs(records, pup_id) ==
    SelectSeq(records, LAMBDA r : StrOf(r.pup_id) = StrOf(pup_id))

get_feeding_records_by_pup_id(f, pup_id, now) ==
    Ok(WherePupIs(get_all_feeding_records(f, now).val, pup_id))

get_training_records_by_pup_id(f, pup_id, now) ==
    Ok(WherePupIs(get_all_training_records(f, now).val, pup_id))

get_feeding_sessions_by_pup_id(f, pup_id, now) ==
    Ok(WherePupIs(get_all_feeding_sessions(f, now).val, pup_id))

\* No try/except: an exception of the load reaches the caller.
get_measurements_by_pup_id(f, pup_id, now) ==
    LET loaded == get_all_measurements(f, now)
    IN  IF loaded.exc # "" THEN Raise(loaded.exc)
        ELSE Ok(WherePupStrIs(loaded.val, pup_id))

\* find_by_foreign_key of the child collection c on file f.
ByPupOf(c, f, pup_id, now) ==
    CASE c = "feeding" -> get_feeding_records_by_pup_id(f, pup_id, now)
      [] c = "training" -> get_training_records_by_pup_id(f, pup_id, now)
      [] c = "sessions" -> get_feeding_sessions_by_pup_id(f, pup_id, now)
      [] OTHER -> get_measurements_by_pup_id(f, pup_id, now)

Findable == {"pups", "training", "sessions", "measurements"}

Children == {"feeding", "training", "sessions", "measurements"}

\* The ids and pup ids the routes look up: the int of an <int:...> URL part, the
\* string of a plain one, and the 0 that int(form.get('pup_id', 0)) defaults to.
LookupIds == IntIds \cup StrIds

LookupPupIds == IntIds \cup StrIds \cup {PyInt(0)}

\* A query that opens the file it read for writing.
Answer_Truncating(f, kind, r) ==
    IF r.exc # "" THEN Raised(open_w(f), r.exc, "none")
    ELSE Result(open_w(f), kind, r.val, "", "none")

\* What a query returned: the file as the query left it and the value.
Answer(f, kind, r) ==
    IF r.exc # "" THEN Raised(f, r.exc, "none") ELSE Result(f, kind, r.val, "", "none")

\* The query op(arg) on collection c ended as r.
Query(op, c, arg, r) ==
    /\ SameCollection(c)
    /\ ~Queried
    /\ \E q \in {r} :
           /\ files' = [files EXCEPT ![c] = q.file]
           /\ pre' = files
           /\ last' = [op |-> op, coll |-> c, arg |-> arg, patch |-> <<>>, res |-> q.res,
                       ent |-> q.ent, exc |-> q.exc, write |-> q.write]
    /\ UNCHANGED <<assigned, trace, clock, procs, done, user>>

FindById_call(c, id) ==
    LET found == FindOf(c, files[c], id, clock)
    IN  Query("find", c, id,
              Answer(files[c], IF found.val = <<>> THEN "None" ELSE "entity", found))

FindByPupId_call(c, pup_id) ==
    Query("by_pup", c, pup_id, Answer(files[c], "list", ByPupOf(c, files[c], pup_id, clock)))

(***************************************************************************)
(* data_manager.py: the aggregations.  A result is a mapping from its keys *)
(* to values that carry their Python type in t; a quotient of Python's /   *)
(* is kept exact, as a fraction in lowest terms.                           *)
(***************************************************************************)
PyList(items) == [t |-> "list", items |-> items]

\* A dict in insertion order.
PyDict(keys, vals) == [t |-> "dict", keys |-> keys, vals |-> vals]

Abs(n) == IF n < 0 THEN 0 - n ELSE n

RECURSIVE GCD(_, _)
GCD(a, b) == IF b = 0 THEN a ELSE GCD(b, a % b)

\* What a / 0 leaves in the place of a quotient: the division raised.
ZeroDivisionError == [t |-> "ZeroDivisionError", num |-> 0, den |-> 0]

\* a / b for b >= 0: a float, or ZeroDivisionError.
Quot(a, b) ==
    IF b = 0 THEN ZeroDivisionError
    ELSE LET g == GCD(Abs(a), b)
         IN  [t |-> "float", num |-> (IF a < 0 THEN 0 - (Abs(a) \div g) ELSE a \div g),
              den |-> b \div g]

RECURSIVE HasFault(_)
\* A division raised somewhere in the computation of the value v.
HasFault(v) ==
    IF "t" \notin DOMAIN v THEN \E k \in DOMAIN v : HasFault(v[k])
    ELSE CASE v.t = "ZeroDivisionError" -> TRUE
           [] v.t = "list" -> \E i \in 1..Len(v.items) : HasFault(v.items[i])
           [] v.t = "dict" -> IF "vals" \in DOMAIN v
                              THEN \E i \in 1..Len(v.vals) : HasFault(v.vals[i])
                              ELSE \E k \in DOMAIN v \ {"t"} : HasFault(v[k])
           [] OTHER -> FALSE

\* What an aggregation function hands to its caller: the mapping it built, or the
\* ZeroDivisionError of a division on the way, which no aggregation function catches
\* outside the growth rate.
Returned(r) ==
    ByValue(r, LAMBDA x : IF x.exc = "" /\ HasFault(x.val[1]) THEN Raise("ZeroDivisionError")
                          ELSE x)

\* The characters of the stored strings in code point order, as str < str compares.
Alphabet ==
    <<"-", "0", "1", "2", "3", "4", "5", "6", "7", "8", "9",
      "A", "B", "C", "D", "E", "F", "G", "H", "I", "J", "K", "L", "M",
      "N", "O", "P", "Q", "R", "S", "T", "U", "V", "W", "X", "Y", "Z",
      "a", "b", "c", "d", "e", "f", "g", "h", "i", "j", "k", "l", "m",
      "n", "o", "p", "q", "r", "s", "t", "u", "v", "w", "x", "y", "z">>

CodePoint(c) == CHOOSE i \in 1..Len(Alphabet) : Alphabet[i] = c

\* a <= b on character sequences: the order of Python strings.
StrLeq(a, b) ==
    \/ \E i \in 1..Len(a) :
           /\ i <= Len(b)
           /\ SubSeq(a, 1, i - 1) = SubSeq(b, 1, i - 1)
           /\ CodePoint(a[i]) < CodePoint(b[i])
    \/ Len(a) <= Len(b) /\ a = SubSeq(b, 1, Len(a))

IsLeap(y) == (y % 4 = 0 /\ y % 100 # 0) \/ y % 400 = 0

DaysInMonth(y, m) ==
    IF m = 2 THEN (IF IsLeap(y) THEN 29 ELSE 28)
    ELSE IF m \in {4, 6, 9, 11} THEN 30 ELSE 31

RECURSIVE DaysBeforeMonth(_, _)
DaysBeforeMonth(y, m) == IF m = 1 THEN 0 ELSE DaysBeforeMonth(y, m - 1) + DaysInMonth(y, m - 1)

\* date.toordinal(): the days from 0001-01-01, that day being 1.
Ordinal(y, m, d) ==
    365 * (y - 1) + ((y - 1) \div 4) - ((y - 1) \div 100) + ((y - 1) \div 400)
        + DaysBeforeMonth(y, m) + d

\* datetime.strptime(v, "%Y-%m-%d"): four digits of year, one or two of month and
\* of day; the year, month and day, or the exception.
strptime(v) ==
    IF v.t # "str" THEN Raise("TypeError")
    ELSE LET s == v.s
             dash == {i \in 6..Len(s) : s[i] = "-"}
         IN  IF Len(s) < 8 \/ Len(s) > 10 \/ s[5] # "-" \/ Cardinality(dash) # 1
                THEN Raise("ValueError")
             ELSE LET j == CHOOSE i \in dash : TRUE
                      ys == SubSeq(s, 1, 4)
                      ms == SubSeq(s, 6, j - 1)
                      ds == SubSeq(s, j + 1, Len(s))
                  IN  IF ~(IsNumeral(ys) /\ IsNumeral(ms) /\ IsNumeral(ds)
                           /\ Len(ms) \in 1..2 /\ Len(ds) \in 1..2)
                         THEN Raise("ValueError")
                      ELSE LET y == ParseDigits(ys)
                               m == ParseDigits(ms)
                               d == ParseDigits(ds)
                           IN  IF y >= 1 /\ m \in 1..12 /\ d >= 1 /\ d <= DaysInMonth(y, m)
                               THEN Ok([year |-> y, month |-> m, day |-> d])
                               ELSE Raise("ValueError")

\* sorted(..., key=lambda x: x.date) keeps the stored order of equal dates: x goes
\* behind every record whose date is not greater.
InsertByDate(sorted, x) ==
    LET k == Cardinality({i \in 1..Len(sorted) : StrLeq(sorted[i].date.s, x.date.s)})
    IN  SubSeq(sorted, 1, k) \o <<x>> \o SubSeq(sorted, k + 1, Len(sorted))

\* The records left in stored order.
SortedByDate_Unsorted(records) == records

RECURSIVE SortedByDate(_)
SortedByDate(records) ==
    IF records = <<>> THEN <<>>
    ELSE ByValue(SortedByDate(SubSeq(records, 1, Len(records) - 1)),
                 LAMBDA sorted : InsertByDate(sorted, records[Len(records)]))

\* min() and max() of a non-empty list of floats, and their sum.
MinOf(values) == CHOOSE v \in {values[i] : i \in 1..Len(values)} :
                     \A i \in 1..Len(values) : v.n <= values[i].n

MaxOf(values) == CHOOSE v \in {values[i] : i \in 1..Len(values)} :
                     \A i \in 1..Len(values) : v.n >= values[i].n

RECURSIVE SumOf(_)
SumOf(values) == IF values = <<>> THEN 0 ELSE values[1].n + SumOf(Tail(values))

\* A same-day span reported as a rate of zero.
RateOver_ZeroWhenSameDay(delta, days_diff) ==
    IF days_diff > 0 THEN Quot(delta, days_diff) ELSE PyFloat(0)

\* if days_diff > 0: growth_rate = delta / days_diff; else it stays None.
RateOver(delta, days_diff) == IF days_diff > 0 THEN Quot(delta, days_diff) ELSE None

\* The growth rate of a field over the records that have it, two at least; an
\* exception of the sort or of strptime is swallowed and leaves None.
GrowthRate(having, field) ==
    IF \E i \in 1..Len(having) : having[i].date.t # "str" THEN None
    ELSE LET sorted == SortedByDate(having)
             first == sorted[1]
             latest == sorted[Len(sorted)]
             first_date == strptime(first.date)
             last_date == strptime(latest.date)
         IN  IF first_date.exc # "" \/ last_date.exc # "" THEN None
             ELSE ByValue(RateOver(latest[field].n - first[field].n,
                                   Ordinal(last_date.val.year, last_date.val.month,
                                           last_date.val.day)
                                   - Ordinal(first_date.val.year, first_date.val.month,
                                             first_date.val.day)),
                          LAMBDA rate : IF rate = ZeroDivisionError THEN None ELSE rate)

\* stats["weight_stats"] or stats["length_stats"]
FieldStats(measurements, field) ==
    LET having == SelectSeq(measurements, LAMBDA m : m[field].t # "none")
        values == [i \in 1..Len(having) |-> having[i][field]]
    IN  IF having = <<>>
        THEN [t |-> "dict", min |-> None, max |-> None, avg |-> None, growth_rate |-> None]
        ELSE [t |-> "dict", min |-> MinOf(values), max |-> MaxOf(values),
              avg |-> Quot(SumOf(values), Len(values)),
              growth_rate |-> IF Len(having) >= 2 THEN GrowthRate(having, field) ELSE None]

GrowthStats(measurements) ==
    [total_records |-> PyInt(Len(measurements)),
     weight_stats |-> FieldStats(measurements, "weight"),
     length_stats |-> FieldStats(measurements, "length")]

\* No try/except around the load: its exception reaches the caller.
get_growth_statistics(f, pup_id, now) ==
    ByValue(get_all_measurements(f, now),
            LAMBDA loaded :
                IF loaded.exc # "" THEN Raise(loaded.exc)
                ELSE Ok(<<ByValue(IF Truthy(pup_id) THEN WherePupIs(loaded.val, pup_id)
                                  ELSE loaded.val, GrowthStats)>>))

RECURSIVE Distinct(_)
\* The keys of a dict filled in the order of keys: each once, by first occurrence.
Distinct(keys) ==
    IF keys = <<>> THEN <<>>
    ELSE ByValue(Distinct(SubSeq(keys, 1, Len(keys) - 1)),
                 LAMBDA front :
                     LET k == keys[Len(keys)]
                     IN  IF \E i \in 1..Len(front) : front[i] = k THEN front
                         ELSE Append(front, k))

\* The values with every None counted as a zero.
NotNone_AsZero(values) ==
    [i \in 1..Len(values) |-> IF values[i].t = "none" THEN PyFloat(0) ELSE values[i]]

\* [v for v in values if v is not None]
NotNone(values) == SelectSeq(values, LAMBDA v : v.t # "none")

\* sum(values) / len(values), without the test for no values.
AvgOrZero_Unguarded(values) == Quot(SumOf(values), Len(values))

\* sum(values) / len(values) if values else 0
AvgOrZero(values) == IF values = <<>> THEN PyInt(0) ELSE Quot(SumOf(values), Len(values))

MinOrZero(values) == IF values = <<>> THEN PyInt(0) ELSE MinOf(values)

MaxOrZero(values) == IF values = <<>> THEN PyInt(0) ELSE MaxOf(values)

Chr_Unknown == <<"U", "n", "k", "n", "o", "w", "n">>

CountWhere(records, Test(_)) == Len(SelectSeq(records, Test))

calculate_statistics(f, now) ==
    ByValue(get_all_pups(f, now).val,
            LAMBDA pups :
        LET lengths == NotNone([i \in 1..Len(pups) |-> pups[i].length])
            weights == NotNone([i \in 1..Len(pups) |-> pups[i].weight])
            MotherOf(pup) == IF Truthy(pup.mother_id) THEN pup.mother_id ELSE PyStr(Chr_Unknown)
            IsLive(pup) == PyEq(pup.status, PyStr(Chr_live))
            IsStillborn(pup) == PyEq(pup.status, PyStr(Chr_stillborn))
            mothers == Distinct([i \in 1..Len(pups) |-> MotherOf(pups[i])])
            OfMother(k) == SelectSeq(pups, LAMBDA pup : MotherOf(pup) = mothers[k])
        IN  IF pups = <<>>
            THEN Ok(<<[count |-> PyInt(0), live_count |-> PyInt(0), stillborn_count |-> PyInt(0),
                       avg_length |-> PyInt(0), avg_weight |-> PyInt(0),
                       min_length |-> PyInt(0), max_length |-> PyInt(0),
                       min_weight |-> PyInt(0), max_weight |-> PyInt(0),
                       mother_stats |-> PyDict(<<>>, <<>>)]>>)
            ELSE Ok(<<[count |-> PyInt(Len(pups)),
                       live_count |-> PyInt(CountWhere(pups, IsLive)),
                       stillborn_count |-> PyInt(CountWhere(pups, IsStillborn)),
                       avg_length |-> AvgOrZero(lengths), avg_weight |-> AvgOrZero(weights),
                       min_length |-> MinOrZero(lengths), max_length |-> MaxOrZero(lengths),
                       min_weight |-> MinOrZero(weights), max_weight |-> MaxOrZero(weights),
                       mother_stats |-> PyDict(mothers,
                           [k \in 1..Len(mothers) |->
                               [t |-> "dict", total |-> PyInt(Len(OfMother(k))),
                                live |-> PyInt(CountWhere(OfMother(k), IsLive)),
                                stillborn |-> PyInt(CountWhere(OfMother(k), IsStillborn))]])]>>))

\* f"{date_obj.year}-{date_obj.month:02d}"
MonthKey(d) ==
    DecimalOf(d.year) \o <<"-">> \o (IF d.month < 10 THEN <<"0">> ELSE <<>>) \o DecimalOf(d.month)

\* The keys left in insertion order.
SortedStrs_Unsorted(strs) == strs

RECURSIVE SortedStrs(_)
\* sorted() of distinct strings.
SortedStrs(strs) ==
    IF strs = <<>> THEN <<>>
    ELSE LET least == CHOOSE i \in 1..Len(strs) : \A j \in 1..Len(strs) : StrLeq(strs[i], strs[j])
         IN  <<strs[least]>> \o SortedStrs(RemoveAt(strs, least))

\* The loop adds a pup to the count of its month, then its length to
\* total_length, then its weight to total_weight; the TypeError of a None length
\* or weight, and the exception of strptime, end the turn of the pup there.
get_monthly_data(f, now) ==
    ByValue(get_all_pups(f, now).val,
            LAMBDA pups :
        LET dated == SelectSeq(pups, LAMBDA pup : strptime(pup.date).exc = "")
            KeyOf(pup) == MonthKey(strptime(pup.date).val)
            months == SortedStrs(Distinct([i \in 1..Len(dated) |-> KeyOf(dated[i])]))
            InMonth(k) == SelectSeq(dated, LAMBDA pup : KeyOf(pup) = months[k])
            Lengths(k) == NotNone([i \in 1..Len(InMonth(k)) |-> InMonth(k)[i].length])
            Weights(k) ==
                LET measured == SelectSeq(InMonth(k), LAMBDA pup : pup.length.t # "none")
                IN  NotNone([i \in 1..Len(measured) |-> measured[i].weight])
        IN  Ok(<<[labels |-> PyList([k \in 1..Len(months) |-> PyStr(months[k])]),
                  counts |-> PyList([k \in 1..Len(months) |-> PyInt(Len(InMonth(k)))]),
                  avg_lengths |-> PyList([k \in 1..Len(months) |->
                                             Quot(SumOf(Lengths(k)), Len(InMonth(k)))]),
                  avg_weights |-> PyList([k \in 1..Len(months) |->
                                             Quot(SumOf(Weights(k)), Len(InMonth(k)))])]>>))

CalculateStatistics_call ==
    Query("statistics", "pups", None,
          Answer(files["pups"], "stats", Returned(calculate_statistics(files["pups"], clock))))

MonthlyData_call ==
    Query("monthly", "pups", None,
          Answer(files["pups"], "stats", Returned(get_monthly_data(files["pups"], clock))))

RECURSIVE ItemsOf(_)
\* for session in sessions: for food_item in session.food_items
ItemsOf(sessions) ==
    IF sessions = <<>> THEN <<>> ELSE sessions[1].food_items \o ItemsOf(Tail(sessions))

\* The sum of the amounts of the items of a food type.
AmountOf(items, food_type) ==
    SumOf(LET mine == SelectSeq(items, LAMBDA i : i.food_type = food_type)
          IN  [k \in 1..Len(mine) |-> mine[k].amount])

\* food_type_amounts: the food types in the order they are met, each with its sum.
FoodTypes(items) == Distinct([k \in 1..Len(items) |-> items[k].food_type])

Chr_None == <<"N", "o", "n", "e">>

RECURSIVE MostCommon(_, _, _, _)
\* for food_type, amount in food_type_amounts.items():
\*     if amount > max_food_amount: max_food_amount, most_common_food = amount, food_type
MostCommon(items, types, most_common_food, max_food_amount) ==
    IF types = <<>> THEN most_common_food
    ELSE IF AmountOf(items, types[1]) > max_food_amount
         THEN MostCommon(items, Tail(types), types[1], AmountOf(items, types[1]))
         ELSE MostCommon(items, Tail(types), most_common_food, max_food_amount)

\* max(food_types.items(), key=lambda x: x[1])[0]: the first of the largest sums.
preferred_food(items) ==
    LET types == FoodTypes(items)
    IN  IF types = <<>> THEN None
        ELSE types[CHOOSE k \in 1..Len(types) : \A j \in 1..Len(types) :
                       \/ AmountOf(items, types[j]) < AmountOf(items, types[k])
                       \/ AmountOf(items, types[j]) = AmountOf(items, types[k]) /\ k <= j]

get_feeding_statistics(f, pup_id, now) ==
    ByValue(IF Truthy(pup_id) THEN get_feeding_sessions_by_pup_id(f, pup_id, now).val
            ELSE get_all_feeding_sessions(f, now).val,
            LAMBDA sessions :
        LET items == ItemsOf(sessions)
            amounts == [k \in 1..Len(items) |-> items[k].amount]
            types == FoodTypes(items)
            sums == [k \in 1..Len(types) |-> PyFloat(AmountOf(items, types[k]))]
        IN  IF sessions = <<>>
            THEN Ok(<<[total_records |-> PyInt(0), food_types |-> PyList(<<>>),
                       food_type_data |-> [t |-> "dict", labels |-> PyList(<<>>),
                                           values |-> PyList(<<>>)],
                       avg_amount |-> PyInt(0), max_amount |-> PyInt(0), min_amount |-> PyInt(0),
                       most_common_food |-> PyStr(Chr_None)]>>)
            ELSE Ok(<<[total_records |-> PyInt(Len(items)),
                       food_types |-> PyList([k \in 1..Len(types) |->
                                                 [t |-> "dict", name |-> types[k], amount |-> sums[k]]]),
                       food_type_data |-> [t |-> "dict", labels |-> PyList(types),
                                           values |-> PyList(sums)],
                       avg_amount |-> AvgOrZero(amounts), max_amount |-> MaxOrZero(amounts),
                       min_amount |-> MinOrZero(amounts),
                       most_common_food |-> MostCommon(items, types, PyStr(Chr_None), 0)]>>))

FeedingStatistics_call(pup_id) ==
    Query("feeding_stats", "sessions", pup_id,
          Answer(files["sessions"], "stats",
                 Returned(get_feeding_statistics(files["sessions"], pup_id, clock))))

\* feeding_comparison of routes.py, for one pup: the sessions of pup.id and the
\* preferred food over their items.
PreferredFood_call(pup_id) ==
    Query("preferred", "sessions", pup_id,
          Answer(files["sessions"], "stats",
                 Ok(<<preferred_food(ItemsOf(
                        get_feeding_sessions_by_pup_id(files["sessions"], pup_id, clock).val))>>)))

\* The pup_id of a statistics call: the default None, or a pup id.
StatsPupIds == {None} \cup LookupPupIds

GrowthStatistics_call(pup_id) ==
    Query("growth", "measurements", pup_id,
          Answer(files["measurements"], "stats",
                 Returned(get_growth_statistics(files["measurements"], pup_id, clock))))

get_feeding_sessions_statistics(f, pup_id, now) ==
    ByValue(IF Truthy(pup_id) THEN get_feeding_sessions_by_pup_id(f, pup_id, now).val
            ELSE get_all_feeding_sessions(f, now).val,
            LAMBDA sessions :
        LET items == ItemsOf(sessions)
            types == FoodTypes(items)
            CountOf(food_type) == Len(SelectSeq(items, LAMBDA i : i.food_type = food_type))
            total_amount == IF items = <<>> THEN PyInt(0)
                            ELSE PyFloat(SumOf([k \in 1..Len(items) |-> items[k].amount]))
        IN  IF sessions = <<>>
            THEN Ok(<<[count |-> PyInt(0), food_types |-> PyList(<<>>),
                       avg_items_per_session |-> PyInt(0), total_amount |-> PyInt(0)]>>)
            ELSE Ok(<<[count |-> PyInt(Len(sessions)),
                       food_types |-> PyList([k \in 1..Len(types) |->
                           [t |-> "dict", name |-> types[k], count |-> PyInt(CountOf(types[k])),
                            amount |-> PyFloat(AmountOf(items, types[k])),
                            avg_amount |-> Quot(AmountOf(items, types[k]), CountOf(types[k]))]]),
                       avg_items_per_session |-> Quot(Len(items), Len(sessions)),
                       total_amount |-> total_amount,
                       avg_amount_per_session |-> Quot(total_amount.n, Len(sessions))]>>))

get_training_statistics(f, pup_id, now) ==
    ByValue(IF Truthy(pup_id) THEN get_training_records_by_pup_id(f, pup_id, now).val
            ELSE get_all_training_records(f, now).val,
            LAMBDA records :
        LET durations == [k \in 1..Len(records) |-> records[k].duration]
            training_types == Distinct([k \in 1..Len(records) |-> records[k].training_type])
            progress_breakdown == Distinct([k \in 1..Len(records) |-> records[k].progress])
        IN  IF records = <<>>
            THEN Ok(<<[count |-> PyInt(0), training_types |-> PyList(<<>>),
                       progress_breakdown |-> PyDict(<<>>, <<>>), avg_duration |-> PyInt(0)]>>)
            ELSE Ok(<<[count |-> PyInt(Len(records)),
                       training_types |-> PyList([k \in 1..Len(training_types) |->
                           [t |-> "dict", name |-> training_types[k],
                            count |-> PyInt(Len(SelectSeq(records, LAMBDA r :
                                              r.training_type = training_types[k])))]]),
                       progress_breakdown |-> PyList([k \in 1..Len(progress_breakdown) |->
                           [t |-> "dict", status |-> progress_breakdown[k],
                            count |-> PyInt(Len(SelectSeq(records, LAMBDA r :
                                              r.progress = progress_breakdown[k])))]]),
                       avg_duration |-> AvgOrZero(durations)]>>))

FeedingSessionsStatistics_call(pup_id) ==
    Query("session_stats", "sessions", pup_id,
          Answer(files["sessions"], "stats",
                 Returned(get_feeding_sessions_statistics(files["sessions"], pup_id, clock))))

TrainingStatistics_call(pup_id) ==
    Query("training_stats", "training", pup_id,
          Answer(files["training"], "stats",
                 Returned(get_training_statistics(files["training"], pup_id, clock))))

\* e.to_dict() of an entity of collection c.
ToDictOf(c, e) ==
    CASE c = "pups" -> SharkPup_to_dict(e)
      [] c = "feeding" -> FeedingRecord_to_dict(e)
      [] c = "training" -> TrainingRecord_to_dict(e)
      [] c = "sessions" -> FeedingSession_to_dict(e)
      [] OTHER -> MeasurementRecord_to_dict(e)

\* The from_dict of the class of collection c.
FromDictOf(c, d, now) ==
    CASE c = "pups" -> SharkPup_from_dict(d, now)
      [] c = "feeding" -> FeedingRecord_from_dict(d, now)
      [] c = "training" -> TrainingRecord_from_dict(d, now)
      [] c = "sessions" -> FeedingSession_from_dict(d, now)
      [] OTHER -> MeasurementRecord_from_dict(d, now)

\* The entities of collection c the program holds: the ones the routes construct,
\* which have no id yet, and the ones a load of the collection returns.
EntitiesOf(c) ==
    LET records == LoadOf(c, files[c], clock).val
        fresh == {Construct(c, a, clock) : a \in ArgsOf(c)}
    IN  {r.val : r \in {x \in fresh : x.exc = ""}}
            \cup {records[k] : k \in 1..Len(records)}

\* cls.from_dict(e.to_dict()), at a later time than the time e was made.
RoundTrip_call(c, e) ==
    LET back == FromDictOf(c, ToDictOf(c, e), clock + 1)
    IN  Query("round_trip", c, e,
              Answer(files[c], "entity",
                     IF back.exc # "" THEN Raise(back.exc) ELSE Ok(<<back.val>>)))

\* One process on storage that does not fail, with the queries.
NextQuery ==
    \/ Next
    \/ \E c \in Findable, id \in LookupIds : FindById_call(c, id)
    \/ \E c \in Children, pup_id \in LookupPupIds : FindByPupId_call(c, pup_id)
    \/ \E pup_id \in StatsPupIds : GrowthStatistics_call(pup_id)
    \/ \E c \in DOMAIN files : \E e \in EntitiesOf(c) : RoundTrip_call(c, e)
    \/ CalculateStatistics_call
    \/ \E pup_id \in StatsPupIds : FeedingStatistics_call(pup_id)
    \/ \E pup_id \in IntIds : PreferredFood_call(pup_id)
    \/ \E pup_id \in StatsPupIds : FeedingSessionsStatistics_call(pup_id)
    \/ \E pup_id \in StatsPupIds : TrainingStatistics_call(pup_id)
    \/ MonthlyData_call

SpecQuery == Init /\ [][NextQuery]_vars

(***************************************************************************)
(* routes.py: the views that add, update or delete a record, as one        *)
(* session requests them.  A view decorated with @login_required sends the *)
(* anonymous requester to the login page before its body runs; the form of *)
(* a request is one of the argument samples above.                         *)
(***************************************************************************)
\* The username of the researcher who can log in.
Researcher == "bob"

\* A request that ends without a call of the store: who is current_user after it.
\* It is none of the store calls trace counts, and reads no time.
Visit(op, who) ==
    /\ Len(trace) < MaxCalls
    /\ ~Queried
    /\ pre' = files
    /\ last' = [NoCall EXCEPT !.op = op, !.coll = last.coll]
    /\ user' = who
    /\ UNCHANGED <<files, assigned, trace, clock, procs, done>>

\* login(): valid is user and user.check_password(password).
login(valid) ==
    IF user # Anonymous THEN Visit("redirect", user)
    ELSE IF valid THEN Visit("login", Researcher)
    ELSE Visit("login", Anonymous)

\* @login_required on a view
login_required(view) == IF user = Anonymous THEN Visit("redirect", Anonymous) ELSE view

logout == login_required(Visit("logout", Anonymous))

\* record = data_manager.get_..._by_id(id); if not record: flash and redirect
IfFound(c, id, view) ==
    IF FindOf(c, files[c], id, clock).val = <<>> THEN Visit("redirect", user) ELSE view

\* feeding(): the session is saved when the form gave it a food item.
feeding(x) ==
    login_required(IF x.items = <<>> THEN Visit("redirect", user)
                   ELSE AddFeedingSession(x, "ok"))

\* edit_feeding_session(): the update is made when the form gave a food item.
edit_feeding_session(session_id, k) ==
    login_required(IfFound("sessions", session_id,
        IF "food_items" \in DOMAIN SessionPatches[k] /\ SessionPatches[k].food_items # <<>>
        THEN UpdateFeedingSession(session_id, k, "ok")
        ELSE Visit("redirect", user)))

\* measurements(pup_id) with POST: the pup has to exist, and the form has to give
\* a weight or a length.  No @login_required.
measurements(pup_id, a) ==
    /\ Len(trace) < MaxCalls
    /\ ~Queried
    /\ last.coll \in {"", "pups", "measurements"}
    /\ IF get_pup_by_id(files["pups"], PyStr(StrOf(pup_id)), clock).val = <<>>
       THEN Visit("redirect", user)
       ELSE IF a.weight = None /\ a.length = None THEN Visit("redirect", user)
       ELSE LET e == MeasurementRecord([a EXCEPT !.pup_id = pup_id], clock)
            IN  /\ e.exc = ""
                /\ Record("add", "measurements", None, <<>>,
                          add_measurement(files["measurements"], e.val, "ok", clock))

NextRoutes ==
    \/ \E valid \in BOOLEAN : login(valid)
    \/ logout
    \/ \E a \in PupArgs : login_required(AddPup(a, "ok"))
    \/ \E id \in IntIds, k \in 1..Len(PupPatches) :
           login_required(IfFound("pups", id, UpdatePup(id, k, "ok")))
    \/ \E x \in SessionArgs : feeding(x)
    \/ \E id \in IntIds, k \in 1..Len(SessionPatches) : edit_feeding_session(id, k)
    \/ \E id \in IntIds :
           login_required(IfFound("sessions", id, DeleteFeedingSession(id, "ok")))
    \/ \E a \in TrainingArgs : login_required(AddTrainingRecord(a, "ok"))
    \/ \E id \in IntIds, k \in 1..Len(TrainingPatches) :
           login_required(IfFound("training", id, UpdateTrainingRecord(id, k, "ok")))
    \/ \E id \in IntIds : IfFound("training", id, DeleteTrainingRecord(id, "ok"))
    \/ \E pup_id \in IntIds, a \in MeasurementArgs : measurements(pup_id, a)
    \/ \E id \in StrIds, k \in 1..Len(MeasurementPatches) :
           IfFound("measurements", id, UpdateMeasurement(id, k, "ok"))
    \/ \E id \in StrIds : IfFound("measurements", id, DeleteMeasurement(id, "ok"))

SpecRoutes == Init /\ [][NextRoutes]_vars

(***************************************************************************)
(* Properties of the record store.                                         *)
(***************************************************************************)
\* The stored dicts of a collection, and those before the last call.
Stored(c) == files[c].data

StoredBefore(c) == pre[c].data

\* Some stored dict of data carries an id that Python's == finds equal to id.
HasId(data, id) == \E i \in 1..Len(data) : PyEq(data[i]["id"], id)

\* The number an id stands for: the int, or the one its string spells.
IdNumber(v) == IF v.t = "str" THEN (IF IsNumeral(v.s) THEN ParseDigits(v.s) ELSE 0) ELSE v.n

\* find_by_id of collection c; the legacy feeding records have none.
FindById(c, id) ==
    CASE c = "pups" -> get_pup_by_id(files[c], id, clock)
      [] c = "training" -> get_training_record_by_id(files[c], id, clock)
      [] c = "sessions" -> get_feeding_session_by_id(files[c], id, clock)
      [] c = "measurements" -> get_measurement_by_id(files[c], id, clock)

\* The last call opened its file for writing, which truncates it.
Wrote == last.write \in {"ok", "partial"}

OnlyAdds == \A i \in 1..Len(trace) : trace[i] = "add"

\* The n-th id of a collection: n, or the string of n for measurements.
NthId(c, n) == IF c = "measurements" THEN PyStr(DecimalOf(n)) ELSE PyInt(n)

\* C1: starting from the empty collection, a sequence of n successful add calls
\* and no other call returns the ids 1, 2, ..., n in call order (the strings
\* "1", "2", ... for measurements), in every collection.
C1_AddsNumberFromOne ==
    OnlyAdds =>
        \A c \in Colls :
            /\ c = last.coll => Len(assigned[c]) = Len(trace)
            /\ \A i \in 1..Len(assigned[c]) : assigned[c][i] = NthId(c, i)

C1_Witness ==
    /\ OnlyAdds
    /\ last.coll = "measurements"
    /\ Len(assigned["measurements"]) >= 3

\* C2: in every state one process reaches by add, update and delete calls, no two
\* stored records of a collection carry the same id, and an id that add assigned
\* is 1 + the largest id the collection held at the call (1 when it was empty).
C2_IdsUniqueAndMaxPlusOne ==
    /\ \A c \in Colls : \A i, j \in 1..Len(Stored(c)) :
           i # j => Stored(c)[i]["id"] # Stored(c)[j]["id"]
    /\ (last.op = "add" /\ last.res = "entity") =>
           /\ last.ent[1].id = NthId(last.coll, IdNumber(last.ent[1].id))
           /\ \A i \in 1..Len(StoredBefore(last.coll)) :
                  IdNumber(StoredBefore(last.coll)[i]["id"]) < IdNumber(last.ent[1].id)
           /\ \/ IdNumber(last.ent[1].id) = 1 /\ StoredBefore(last.coll) = <<>>
              \/ \E i \in 1..Len(StoredBefore(last.coll)) :
                     IdNumber(StoredBefore(last.coll)[i]["id"]) + 1 = IdNumber(last.ent[1].id)

\* C4: once add has returned an entity, find_by_id with the returned id returns an
\* entity equal to it in every field, and its created_at is not None.
C4_AddThenFind ==
    (last.op = "add" /\ last.res = "entity" /\ last.coll \in Findable) =>
        LET found == FindById(last.coll, last.ent[1].id)
        IN  /\ found.exc = ""
            /\ found.val = <<last.ent[1]>>
            /\ found.val[1].created_at # None

C4_Witness ==
    /\ last.op = "add" /\ last.res = "entity" /\ last.coll = "sessions"
    /\ Len(Stored("sessions")) >= 2
    /\ Len(last.ent[1].food_items) = 2

\* C5: an update of an existing id replaces one stored record that carried the id
\* by a record that differs from it only in fields partial_fields names; every
\* other stored record is kept as it was.
C5_UpdateChangesOnlyNamedFields ==
    (last.op = "update" /\ last.res = "entity") =>
        LET before == StoredBefore(last.coll)
            after == Stored(last.coll)
            named == DOMAIN last.patch[1]
        IN  \E i \in 1..Len(before), j \in 1..Len(after) :
                /\ PyEq(before[i]["id"], last.arg)
                /\ RemoveAt(after, j) = RemoveAt(before, i)
                /\ DOMAIN after[j] = DOMAIN before[i]
                /\ \A k \in DOMAIN before[i] \ named : after[j][k] = before[i][k]

C5_Witness ==
    /\ last.op = "update" /\ last.res = "entity" /\ last.coll = "training"
    /\ Len(Stored("training")) >= 2
    /\ Stored("training") # StoredBefore("training")

\* C6: an update with an id no stored record has returns None, leaves every file
\* as it was and does not open the file for writing.
C6_UpdateOfMissingId ==
    (last.op = "update" /\ ~HasId(StoredBefore(last.coll), last.arg)) =>
        /\ last.res = "None"
        /\ files = pre
        /\ ~Wrote

C6_Witness ==
    /\ last.op = "update" /\ last.coll = "measurements"
    /\ StoredBefore("measurements") # <<>>
    /\ ~HasId(StoredBefore("measurements"), last.arg)

\* C7: a delete of an id some stored record has returns True, leaves one record
\* fewer, keeps every other record as it was, and find_by_id with the id then
\* returns none.
C7_DeleteRemovesTheId ==
    (last.op = "delete" /\ HasId(StoredBefore(last.coll), last.arg)) =>
        /\ last.res = "True"
        /\ Len(Stored(last.coll)) = Len(StoredBefore(last.coll)) - 1
        /\ \E i \in 1..Len(StoredBefore(last.coll)) :
               /\ PyEq(StoredBefore(last.coll)[i]["id"], last.arg)
               /\ Stored(last.coll) = RemoveAt(StoredBefore(last.coll), i)
        /\ FindById(last.coll, last.arg) = Ok(<<>>)

\* C8: a delete of an id no stored record has returns False and leaves every file
\* as it was; a delete opens the file for writing exactly when it leaves fewer
\* records.
C8_DeleteOfMissingId ==
    last.op = "delete" =>
        /\ ~HasId(StoredBefore(last.coll), last.arg) =>
               (last.res = "False" /\ files = pre /\ ~Wrote)
        /\ Wrote <=> Len(Stored(last.coll)) < Len(StoredBefore(last.coll))

C8_Witness ==
    /\ last.op = "delete" /\ last.coll = "training"
    /\ StoredBefore("training") # <<>>
    /\ ~HasId(StoredBefore("training"), last.arg)

\* load_all of collection c.
GetAll(c) ==
    CASE c = "pups" -> get_all_pups(files[c], clock)
      [] c = "feeding" -> get_all_feeding_records(files[c], clock)
      [] c = "training" -> get_all_training_records(files[c], clock)
      [] c = "sessions" -> get_all_feeding_sessions(files[c], clock)
      [] OTHER -> get_all_measurements(files[c], clock)

\* The keys from_dict reads with data[...].
RequiredKeys(c) ==
    CASE c = "pups" -> {"id", "created_at", "date", "name"}
      [] c = "feeding" -> {"id", "created_at", "pup_id", "date", "food_type", "amount"}
      [] c = "training" -> {"id", "created_at", "pup_id", "date", "training_type",
                            "duration", "progress"}
      [] OTHER -> {"id", "created_at", "pup_id", "date"}

\* The file of c is missing, unreadable or undecodable, or holds a record that
\* lacks a required key.
Unusable(c) ==
    \/ files[c].st # "ok"
    \/ \E i \in 1..Len(Stored(c)) : ~(RequiredKeys(c) \subseteq DOMAIN Stored(c)[i])

\* C9: when the backing file is missing, unreadable, undecodable or holds a
\* record that lacks a required key, load_all returns the empty sequence and
\* raises nothing, in every collection.
C9_LoadAllNeverRaises ==
    \A c \in Colls : Unusable(c) => GetAll(c) = Ok(<<>>)

\* C10: when the write of an add, update or delete fails, the call returns its
\* failure result (None for add and update, False for delete) and raises nothing.
C10_WriteFailureIsReturned ==
    (last.op \in {"add", "update", "delete"} /\ last.write \in {"openfail", "partial"}) =>
        /\ last.exc = ""
        /\ last.res = IF last.op = "delete" THEN "False" ELSE "None"

\* The last two completed adds came from different handlers, both loaded after
\* every earlier write and before either opened the file, the second opened it
\* after the first had closed it, and no handler has it open now.
RacedAdds ==
    /\ Len(done) >= 2
    /\ LET a == done[Len(done) - 1]
           b == done[Len(done)]
       IN  /\ a.proc # b.proc
           /\ b.tLoad < a.tOpen
           /\ a.tClose < b.tOpen
           /\ \A k \in 1..(Len(done) - 2) :
                  done[k].tClose < a.tLoad /\ done[k].tClose < b.tLoad
    /\ \A p \in Procs : procs[p].pc # "opened"

\* C3: when two add calls on one collection interleave so that both load before
\* either writes, both loaded the same records and both return the same id; once
\* both have returned, the collection holds the loaded records and the record of
\* the second writer, and not the record of the first.
C3_LostUpdate ==
    RacedAdds =>
        LET a == done[Len(done) - 1]
            b == done[Len(done)]
            c == procs[b.proc].coll
            kept == LoadOf(c, files[c], clock)
        IN  /\ a.snap = b.snap
            /\ a.ent.id = b.ent.id
            /\ kept = Ok(Append(b.snap, b.ent))
            /\ \A i \in 1..Len(kept.val) : kept.val[i] # a.ent

C3_Witness ==
    /\ RacedAdds
    /\ done[Len(done)].snap # <<>>
    /\ procs[1].coll = "sessions"

\* The records of collection c whose id, as a string, is the string of id.
WithIdStr(c, id) == SelectSeq(LoadOf(c, files[c], clock).val, LAMBDA r : StrOf(r.id) = StrOf(id))

\* C11: find_by_id compares ids as strings, in every collection that has one: it
\* returns the first stored record whose str(id) is the str of the lookup id, so
\* int n and "n" find the same record, and None when there is no such record.
C11_FindByIdStringNormalized ==
    last.op = "find" =>
        /\ last.exc = ""
        /\ last.ent = IF WithIdStr(last.coll, last.arg) = <<>> THEN <<>>
                      ELSE <<WithIdStr(last.coll, last.arg)[1]>>

\* C12: find_by_foreign_key(pup_id) returns, in stored order, exactly the records
\* whose str(pup_id) is the str of the argument, in every child collection.
C12_ForeignKeyStringEquality ==
    last.op = "by_pup" =>
        /\ last.exc = ""
        /\ last.ent = WherePupStrIs(LoadOf(last.coll, files[last.coll], clock).val, last.arg)

\* The day number of a date string that strptime accepts.
DayNumber(v) ==
    LET d == strptime(v).val IN Ordinal(d.year, d.month, d.day)

\* The measurements the last growth statistics call covered that have the field.
Having(field) ==
    LET all == LoadOf("measurements", files["measurements"], clock).val
        mine == IF Truthy(last.arg) THEN WherePupIs(all, last.arg) ELSE all
    IN  SelectSeq(mine, LAMBDA m : m[field].t # "none")

\* The earliest-dated of the records, the first stored among those of its day,
\* and the latest-dated, the last stored among those of its day.
Earliest(records) ==
    records[CHOOSE e \in 1..Len(records) : \A j \in 1..Len(records) :
                \/ DayNumber(records[e].date) < DayNumber(records[j].date)
                \/ DayNumber(records[e].date) = DayNumber(records[j].date) /\ e <= j]

Latest(records) ==
    records[CHOOSE l \in 1..Len(records) : \A j \in 1..Len(records) :
                \/ DayNumber(records[j].date) < DayNumber(records[l].date)
                \/ DayNumber(records[j].date) = DayNumber(records[l].date) /\ j <= l]

Datable(records) == \A i \in 1..Len(records) : strptime(records[i].date).exc = ""

StatsKey(field) == IF field = "weight" THEN "weight_stats" ELSE "length_stats"

\* C13: for weight and for length, when two or more of the covered measurements
\* have the field and the latest-dated of them is dated after the earliest-dated,
\* growth_rate is (value of the latest - value of the earliest) / (days between
\* the two dates); of measurements of one day the first stored counts as the
\* earlier.  Dates are ISO dates with two-digit month and day.
C13_GrowthRate ==
    (last.op = "growth" /\ last.res = "stats") =>
        \A field \in {"weight", "length"} :
            LET having == Having(field)
            IN  (/\ Len(having) >= 2
                 /\ Datable(having)
                 /\ DayNumber(Earliest(having).date) < DayNumber(Latest(having).date)) =>
                    last.ent[1][StatsKey(field)].growth_rate =
                        Quot(Latest(having)[field].n - Earliest(having)[field].n,
                             DayNumber(Latest(having).date) - DayNumber(Earliest(having).date))

C13_Witness ==
    /\ last.op = "growth" /\ last.res = "stats"
    /\ Len(Having("weight")) = 3
    /\ DayNumber(Having("weight")[2].date) = DayNumber(Having("weight")[1].date)
    /\ Having("weight")[2].weight # Having("weight")[1].weight
    /\ last.ent[1].weight_stats.growth_rate = Quot(20, 1)

\* C14: for weight and for length, growth_rate is None when fewer than two of the
\* covered measurements have the field, or when the earliest-dated and the
\* latest-dated of them are of the same day.
C14_GrowthRateUnavailable ==
    (last.op = "growth" /\ last.res = "stats") =>
        \A field \in {"weight", "length"} :
            LET having == Having(field)
            IN  (\/ Len(having) < 2
                 \/ /\ Datable(having)
                    /\ DayNumber(Earliest(having).date) = DayNumber(Latest(having).date)) =>
                    last.ent[1][StatsKey(field)].growth_rate = None

C14_Witness ==
    /\ last.op = "growth" /\ last.res = "stats"
    /\ Len(Having("weight")) >= 2
    /\ DayNumber(Earliest(Having("weight")).date) = DayNumber(Latest(Having("weight")).date)
    /\ Having("weight")[1].weight # Having("weight")[2].weight
    /\ Len(Having("length")) = 1

\* The pups as load_all returns them.
Pups == LoadOf("pups", files["pups"], clock).val

\* The values of a field over the pups that have it.
Measured(field) ==
    LET have == SelectSeq(Pups, LAMBDA pup : pup[field] # None)
    IN  [i \in 1..Len(have) |-> have[i][field]]

\* avg, min and max are those of the non-empty list of values, or all are 0.
SummaryOf(values, avg, min, max) ==
    IF values = <<>> THEN avg = PyInt(0) /\ min = PyInt(0) /\ max = PyInt(0)
    ELSE /\ avg.t = "float" /\ avg.num * Len(values) = SumOf(values) * avg.den
         /\ \E i \in 1..Len(values) : min = values[i]
         /\ \E i \in 1..Len(values) : max = values[i]
         /\ \A i \in 1..Len(values) : min.n <= values[i].n /\ values[i].n <= max.n

\* C15: calculate_statistics reports avg, min and max of length and of weight over
\* the pups that have the field, a None being in neither the sum nor the count;
\* when no pup has the field the three values are 0.
C15_StatisticsSkipNone ==
    (last.op = "statistics" /\ last.res = "stats") =>
        LET r == last.ent[1]
        IN  /\ SummaryOf(Measured("length"), r.avg_length, r.min_length, r.max_length)
            /\ SummaryOf(Measured("weight"), r.avg_weight, r.min_weight, r.max_weight)

C15_Witness ==
    /\ last.op = "statistics" /\ last.res = "stats"
    /\ Len(Pups) = 3
    /\ Pups[2].length = None
    /\ Len(Measured("length")) = 2
    /\ last.ent[1].avg_length = Quot(16, 1)
    /\ last.ent[1].min_length = PyFloat(12)

\* The year and month of a pup's date, and the label of that month.
MonthOf(pup) == strptime(pup.date).val

LabelOf(pup) == PyStr(MonthKey(MonthOf(pup)))

DatedPups == SelectSeq(Pups, LAMBDA pup : strptime(pup.date).exc = "")

\* C17: get_monthly_data returns labels, counts, avg_lengths and avg_weights of one
\* length; every month a pup is dated in has its label; counts[i] is the number of
\* pups dated in the month of labels[i] and is not 0; the labels ascend strictly
\* in calendar order, whatever the stored order of the pups.
C17_MonthlyData ==
    (last.op = "monthly" /\ last.res = "stats") =>
        LET r == last.ent[1]
            n == Len(r.labels.items)
        IN  /\ Len(r.counts.items) = n
            /\ Len(r.avg_lengths.items) = n
            /\ Len(r.avg_weights.items) = n
            /\ \A p \in 1..Len(DatedPups) : \E i \in 1..n : r.labels.items[i] = LabelOf(DatedPups[p])
            /\ \A i \in 1..n :
                   /\ r.counts.items[i] =
                          PyInt(Cardinality({p \in 1..Len(DatedPups) :
                                                LabelOf(DatedPups[p]) = r.labels.items[i]}))
                   /\ r.counts.items[i].n > 0
            /\ \A i, j \in 1..n : i < j =>
                   \E p, q \in 1..Len(DatedPups) :
                       /\ LabelOf(DatedPups[p]) = r.labels.items[i]
                       /\ LabelOf(DatedPups[q]) = r.labels.items[j]
                       /\ \/ MonthOf(DatedPups[p]).year < MonthOf(DatedPups[q]).year
                          \/ /\ MonthOf(DatedPups[p]).year = MonthOf(DatedPups[q]).year
                             /\ MonthOf(DatedPups[p]).month < MonthOf(DatedPups[q]).month

C17_Witness ==
    /\ last.op = "monthly" /\ last.res = "stats"
    /\ Len(Pups) = 3
    /\ Pups[1].date = PyStr(Chr_D2)
    /\ last.ent[1].labels.items = <<PyStr(<<"2", "0", "2", "4", "-", "0", "1">>),
                                    PyStr(<<"2", "0", "2", "4", "-", "0", "2">>)>>
    /\ last.ent[1].counts.items = <<PyInt(2), PyInt(1)>>

\* The food items the last feeding statistics or preferred food call covered.
CoveredItems ==
    LET all == LoadOf("sessions", files["sessions"], clock).val
    IN  ItemsOf(IF Truthy(last.arg) THEN WherePupIs(all, last.arg) ELSE all)

\* food_type is, of the food types of the items, the one of the largest summed
\* amount, and of those of the largest sum the one met first.
LargestSum(items, food_type) ==
    \E i \in 1..Len(items) :
        /\ items[i].food_type = food_type
        /\ \A j \in 1..Len(items) :
               \/ AmountOf(items, items[j].food_type) < AmountOf(items, food_type)
               \/ /\ AmountOf(items, items[j].food_type) = AmountOf(items, food_type)
                  /\ \E k \in 1..j : items[k].food_type = food_type

\* C16: when the covered sessions have a food item, most_common_food of
\* get_feeding_statistics is the food type of the largest summed amount, the first
\* met of those that tie; so is the preferred_food of feeding_comparison.
C16_MostCommonFoodBySum ==
    (last.op \in {"feeding_stats", "preferred"} /\ last.res = "stats" /\ CoveredItems # <<>>) =>
        LargestSum(CoveredItems,
                   IF last.op = "preferred" THEN last.ent[1] ELSE last.ent[1].most_common_food)

\* C18: from_dict(to_dict(e)) is e, attribute for attribute: the id, created_at,
\* the optional attributes that are None and the food items of a session in
\* their order.
C18_RoundTrip ==
    last.op = "round_trip" => last.res = "entity" /\ last.ent = <<last.arg>>

\* A stored session of two different food items, round-tripped.
C18_Witness ==
    /\ last.op = "round_trip" /\ last.coll = "sessions" /\ last.res = "entity"
    /\ last.arg.id # None
    /\ Len(last.arg.food_items) = 2
    /\ last.arg.food_items[1] # last.arg.food_items[2]

\* The calls of the six aggregation functions.
Aggregations ==
    {"statistics", "monthly", "feeding_stats", "session_stats", "training_stats", "growth"}

\* C19: an aggregation function leaves every one of the five collections as it
\* found it.
C19_AggregationsReadOnly ==
    last.op \in Aggregations => \A c \in DOMAIN files : files[c] = pre[c]

\* An aggregation over a collection that holds records.
C19_Witness ==
    /\ last.op \in Aggregations /\ last.res = "stats"
    /\ files[last.coll].data # <<>>
    /\ Len(trace) >= 2

\* The kind of a value: a number, a string, None, a list or a dict.
KindOf(v) == IF v.t \in {"int", "float"} THEN "number" ELSE v.t

\* The keys of a result, each with the kind of its value.
ShapeOf(result) == [k \in DOMAIN result |-> KindOf(result[k])]

\* The result of aggregation op for a collection that holds no record.
ResultWhenEmpty(op) ==
    CASE op = "statistics" -> calculate_statistics(EmptyFile, clock).val[1]
      [] op = "monthly" -> get_monthly_data(EmptyFile, clock).val[1]
      [] op = "feeding_stats" -> get_feeding_statistics(EmptyFile, None, clock).val[1]
      [] op = "session_stats" -> get_feeding_sessions_statistics(EmptyFile, None, clock).val[1]
      [] op = "training_stats" -> get_training_statistics(EmptyFile, None, clock).val[1]
      [] OTHER -> get_growth_statistics(EmptyFile, None, clock).val[1]

\* C20: the result of an aggregation function has the keys, and under each key
\* the kind of value, of its result for an empty collection.
C20_FixedShape ==
    (last.op \in Aggregations /\ last.res = "stats") =>
        ShapeOf(last.ent[1]) = ShapeOf(ResultWhenEmpty(last.op))

\* C21: no aggregation function ends in a division by zero, whatever the
\* collection holds.
C21_NoDivisionByZero ==
    last.op \in Aggregations => last.exc # "ZeroDivisionError" /\ last.res = "stats"

\* The session statistics of sessions that have no food item.
C21_Witness ==
    /\ last.op = "session_stats" /\ last.res = "stats"
    /\ last.ent[1].count # PyInt(0)
    /\ last.ent[1].food_types = PyList(<<>>)
    /\ last.ent[1].avg_amount_per_session = Quot(0, 1)


\* The fields the constructors default to None and update_pup normalises.
OptionalFields(c) ==
    CASE c = "pups" -> {"length", "weight", "date_of_birth", "mother_id", "sex"}
      [] c = "measurements" -> {"weight", "length"}
      [] OTHER -> {}

\* C22: a successful update whose partial_fields gives an optional field the empty
\* string returns, and stores, the record with None in that field.
C22_BlankStoredAsNone ==
    (last.op = "update" /\ last.res = "entity") =>
        \A k \in DOMAIN last.patch[1] \cap OptionalFields(last.coll) :
            PyEq(last.patch[1][k], Blank) =>
                /\ last.ent[1][k] = None
                /\ \E j \in 1..Len(Stored(last.coll)) :
                       /\ PyEq(Stored(last.coll)[j]["id"], last.arg)
                       /\ Stored(last.coll)[j][k] = None

\* The same for update_pup alone.
C22_BlankStoredAsNoneInPups == last.coll = "pups" => C22_BlankStoredAsNone

C22_PupWitness ==
    /\ last.op = "update" /\ last.res = "entity" /\ last.coll = "pups"
    /\ "sex" \in DOMAIN last.patch[1] /\ last.patch[1]["sex"] = Blank
    /\ last.ent[1].sex = None

\* How many dicts of data carry the creation time v.
CreatedAtCount(data, v) == Cardinality({i \in 1..Len(data) : data[i]["created_at"] = v})

\* C23: no call changes the created_at of a stored record: an update leaves the
\* creation times of the collection as they were, an add keeps those of the
\* records before the new one, a delete only takes creation times away.
C23_CreatedAtKept ==
    LET before == StoredBefore(last.coll)
        after == Stored(last.coll)
        times == {before[i]["created_at"] : i \in 1..Len(before)}
                     \cup {after[i]["created_at"] : i \in 1..Len(after)}
    IN  /\ last.op = "update" =>
               \A v \in times : CreatedAtCount(after, v) = CreatedAtCount(before, v)
        /\ last.op = "add" =>
               /\ Len(after) >= Len(before)
               /\ \A i \in 1..Len(before) : after[i]["created_at"] = before[i]["created_at"]
        /\ last.op = "delete" =>
               \A v \in times : CreatedAtCount(after, v) <= CreatedAtCount(before, v)

\* The same for the collections whose update names the fields it assigns.
C23_CreatedAtKeptByNamedFields == last.coll # "measurements" => C23_CreatedAtKept

C23_NamedFieldsWitness ==
    /\ last.op = "update" /\ last.res = "entity" /\ last.coll = "sessions"
    /\ Len(Stored("sessions")) >= 2
    /\ Stored("sessions") # StoredBefore("sessions")

\* C24: when add returns an entity, every decodable record the backing file held
\* before the call is in the file after it.
C24_AddKeepsRecords ==
    (last.op = "add" /\ last.res = "entity") =>
        \A i \in 1..Len(StoredBefore(last.coll)) :
            StoredBefore(last.coll)[i] # Stub =>
                \E j \in 1..Len(Stored(last.coll)) :
                    Stored(last.coll)[j] = StoredBefore(last.coll)[i]

\* The same when the load inside add decoded the file.
C24_AddKeepsDecodedRecords ==
    (/\ last.op = "add"
     /\ \/ pre[last.coll].st # "ok"
        \/ \E i \in 1..Len(StoredBefore(last.coll)) : StoredBefore(last.coll)[i] = Stub)
        \/ C24_AddKeepsRecords

C24_DecodedWitness ==
    /\ last.op = "add" /\ last.res = "entity" /\ last.coll = "pups"
    /\ pre["pups"].st = "ok" /\ Len(StoredBefore("pups")) >= 2
    /\ Len(Stored("pups")) = Len(StoredBefore("pups")) + 1

\* The ids of the stored dicts, in file order.
IdsOf(data) == [i \in 1..Len(data) |-> data[i]["id"]]

\* C25: after a successful update the collection holds the ids it held before,
\* in the same order.
C25_UpdateKeepsOrder ==
    (last.op = "update" /\ last.res = "entity") =>
        IdsOf(Stored(last.coll)) = IdsOf(StoredBefore(last.coll))

\* The same for the updates that assign in place and leave the id alone:
\* update_pup, and update_measurement without the key 'id'.
C25_InPlaceUpdateKeepsOrder ==
    \/ last.coll \in {"training", "sessions"}
    \/ last.op = "update" /\ last.coll = "measurements" /\ "id" \in DOMAIN last.patch[1]
    \/ C25_UpdateKeepsOrder

C25_InPlaceWitness ==
    /\ last.op = "update" /\ last.res = "entity" /\ last.coll = "pups"
    /\ Len(Stored("pups")) >= 2
    /\ PyEq(Stored("pups")[1]["id"], last.arg)
    /\ Stored("pups")[1] # StoredBefore("pups")[1]

\* C26: over add and delete calls alone, the ids add returns in a collection that
\* supports delete are strictly increasing in call order.
C26_IdsNeverReused ==
    (\A n \in 1..Len(trace) : trace[n] \in {"add", "delete"}) =>
        \A c \in {"training", "sessions", "measurements"} :
            \A i, j \in 1..Len(assigned[c]) :
                i < j => IdNumber(assigned[c][i]) < IdNumber(assigned[c][j])

\* C27: after a successful update the collection holds the set of ids it held
\* before, whatever keys partial_fields has.
C27_UpdateKeepsIds ==
    (last.op = "update" /\ last.res = "entity") =>
        {Stored(last.coll)[i]["id"] : i \in 1..Len(Stored(last.coll))}
            = {StoredBefore(last.coll)[i]["id"] : i \in 1..Len(StoredBefore(last.coll))}

\* The same for the updates that name the fields they assign.
C27_NamedFieldsKeepIds == last.coll # "measurements" => C27_UpdateKeepsIds

C27_NamedFieldsWitness ==
    /\ last.op = "update" /\ last.res = "entity" /\ last.coll \in {"pups", "training"}
    /\ "id" \in DOMAIN last.patch[1] /\ ~PyEq(last.patch[1]["id"], last.arg)
    /\ PyEq(last.ent[1].id, last.arg)

\* updated_data carries a value the update of collection c cannot convert: a
\* length or weight float() rejects, a duration int() rejects, a food amount
\* float() rejects.
ConversionFails(c, updated_data) ==
    CASE c = "pups" ->
             \E k \in {"length", "weight"} \cap DOMAIN updated_data :
                 ~PyEq(updated_data[k], Blank) /\ FloatOf(updated_data[k]).exc # ""
      [] c = "training" ->
             "duration" \in DOMAIN updated_data /\ IntOf(updated_data["duration"]).exc # ""
      [] c = "sessions" ->
             /\ "food_items" \in DOMAIN updated_data
             /\ \E n \in 1..Len(updated_data["food_items"]) :
                    FloatOf(updated_data["food_items"][n]["amount"]).exc # ""
      [] OTHER -> FALSE

\* C28: an update whose partial_fields carries a value that cannot be converted
\* returns None, does not raise, and leaves every file as it was before the call.
C28_FailedConversionChangesNothing ==
    (last.op = "update" /\ ConversionFails(last.coll, last.patch[1])) =>
        /\ last.res = "None"
        /\ last.exc = ""
        /\ files = pre
        /\ ~Wrote

C28_Witness ==
    /\ last.op = "update" /\ last.coll = "sessions"
    /\ ConversionFails("sessions", last.patch[1])
    /\ HasId(StoredBefore("sessions"), last.arg)
    /\ Len(Stored("sessions")) >= 2
    /\ last.res = "None"

\* The number of records a statistics result says it covers: food items for the
\* feeding statistics, records for the others.
CoveredCount(op, stats) ==
    IF op \in {"feeding_stats", "growth"} THEN stats.total_records ELSE stats.count

\* C29: a statistics call for the pup p covers the records whose pup_id equals p
\* and no other record.
C29_ScopedStatistics ==
    (/\ last.op \in {"feeding_stats", "session_stats", "training_stats", "growth"}
     /\ last.arg # None /\ last.res = "stats") =>
        LET own == SelectSeq(Stored(last.coll), LAMBDA d : PyEq(d["pup_id"], last.arg))
        IN  CoveredCount(last.op, last.ent[1])
                = PyInt(IF last.op = "feeding_stats" THEN Len(ItemsOf(own)) ELSE Len(own))

\* The same for the pup ids Python takes as true.
C29_ScopedStatisticsOfTruthyIds ==
    \/ /\ last.op \in {"feeding_stats", "session_stats", "training_stats", "growth"}
       /\ ~Truthy(last.arg)
    \/ C29_ScopedStatistics

C29_TruthyWitness ==
    /\ last.op = "training_stats" /\ last.arg = PyInt(1) /\ last.res = "stats"
    /\ last.ent[1].count = PyInt(1) /\ Len(Stored("training")) >= 2

\* C30: a request that changed a collection came from a logged-in user.  The
\* views that call the store leave current_user as it is, so the user of the
\* state after the call is the requester.
C30_WritesNeedLogin ==
    (last.op \in {"add", "update", "delete"} /\ files # pre) => user # Anonymous

\* The same for the views that carry @login_required.
C30_DecoratedViewsNeedLogin ==
    \/ last.coll = "measurements"
    \/ last.coll = "training" /\ last.op = "delete"
    \/ C30_WritesNeedLogin

C30_DecoratedWitness ==
    /\ last.op = "update" /\ last.coll = "sessions" /\ files # pre
    /\ user = Researcher /\ Len(Stored("sessions")) >= 2

====
